---- MODULE Spec2Model ----
(***************************************************************************)
(* A model of the css-parser crate: the lexer (src/src/lexer.rs), the      *)
(* recursive-descent parser (rules.rs, selectors.rs, values.rs, lib.rs),   *)
(* the renderer (to_string_from_buffer) and the Base64-VLQ encoder of the  *)
(* source map builder (source_map.rs).                                     *)
(*                                                                         *)
(* Text is a sequence of one-character strings.  Byte offsets are kept     *)
(* apart from character positions: Utf8Len gives the width of a character. *)
(* An Option<T> is a sequence of length at most one.                       *)
(***************************************************************************)
EXTENDS Integers, Sequences, FiniteSets

VARIABLES
    entry,          \* the ASTNode whose from_string is running
    source,         \* the text handed to lex_source
    start_offset,   \* lex_source's start_offset.unwrap_or_default()
    source_id,      \* lex_source's source_id
    recvOpen,       \* whether the sender's push still succeeds
    lexer,          \* the locals of lex_source
    pc,             \* position of the driver (from_string, then to_string)
    parseResult,    \* what from_reader returned
    outcome,        \* what from_string returned
    minify,         \* ToStringSettings.minify
    rendered,       \* the buffer to_string returned
    round,          \* 1: the first parse; 2: the parse of the rendered text
    firstRender,    \* the first round's rendered text
    vlq,            \* the locals of vlq_encode_integer_to_buffer
    received,       \* how many tokens the reader has taken from the channel
    style_sheet,    \* the StyleSheet handed to raise_rules, or the one rendered
    source_map,     \* the fields of the SourceMap
    adjacency,      \* the two spans given to is_adjacent and its answer
    calls,          \* the calls made on the SourceMap, in order
    SOURCE_IDS,     \* the thread_local registry, one map for every thread
    SOURCE_ID_COUNTER,  \* the AtomicU8 that from_path takes its source ids from
    parsed          \* the style sheets the parse entry points have returned

vars == <<entry, source, start_offset, source_id, recvOpen, lexer, pc,
          parseResult, outcome, minify, rendered, round, firstRender, vlq,
          received, style_sheet, source_map, adjacency, calls,
          SOURCE_IDS, SOURCE_ID_COUNTER, parsed>>

(***************************************************************************)
(* Bounds of the model.                                                    *)
(***************************************************************************)
MaxLexLen == 4
MaxThreads == 2

\* the threads of the program that call the parser and the renderer
Threads == 1..MaxThreads
MaxOffset == 1

(***************************************************************************)
(* Characters.                                                             *)
(***************************************************************************)
\* 'A'..='Z' | 'a'..='z'
Alpha == {"a", "b", "c", "d", "e", "h", "i", "l", "o", "p", "r", "x", "A"}
\* '0'..='9'
Digit == {"0", "1", "2", "3", "4", "5", "6", "7", "8", "9"}
\* char::is_whitespace; U+00A0 is the no-break space
Whitespace == {" ", "\n", "\r", "\t", "U+00A0"}
\* characters whose UTF-8 encoding takes two bytes
TwoByte == {"U+00A0", "U+00E9"}

IsAlpha(chr) == chr \in Alpha
IsDigit(chr) == chr \in Digit
IsIdentChar(chr) == chr \in Alpha \cup Digit \cup {"-"}
IsNumberChar(chr) == chr \in Digit \cup {"."}
IsWhitespace(chr) == chr \in Whitespace

Utf8Len(chr) == IF chr \in TwoByte THEN 2 ELSE 1

RECURSIVE ByteLen(_)
ByteLen(s) == IF s = <<>> THEN 0 ELSE Utf8Len(Head(s)) + ByteLen(Tail(s))

\* the byte offset of the k-th character of src (k = Len(src) + 1: the end)
ByteOff(src, k) == ByteLen(SubSeq(src, 1, k - 1))

IsCharBoundary(src, b) == \E k \in 1..(Len(src) + 1) : ByteOff(src, k) = b

CharIndex(src, b) == CHOOSE k \in 1..(Len(src) + 1) : ByteOff(src, k) = b

\* source[from..to] panics unless from <= to and both are character boundaries
SliceOk(src, from, to) ==
    from <= to /\ IsCharBoundary(src, from) /\ IsCharBoundary(src, to)

Slice(src, from, to) == SubSeq(src, CharIndex(src, from), CharIndex(src, to) - 1)

(***************************************************************************)
(* Spans, tokens and errors.                                               *)
(***************************************************************************)
Span(s, e, id) == [start |-> s, end |-> e, source_id |-> id]

Token(t, v, sp) == [type |-> t, value |-> v, span |-> sp]

Reason(msg, expected, found, value) ==
    [msg |-> msg, expected |-> expected, found |-> found, value |-> value]

ParseError(reason, position) == [reason |-> reason, position |-> position]

\* the single-character tokens
Punctuation(chr) ==
    CASE chr = "{" -> "OpenCurly"
      [] chr = "}" -> "CloseCurly"
      [] chr = "(" -> "OpenBracket"
      [] chr = ")" -> "CloseBracket"
      [] chr = ":" -> "Colon"
      [] chr = ";" -> "SemiColon"
      [] chr = "," -> "Comma"
      [] chr = ">" -> "CloseAngle"
      [] chr = "." -> "Dot"
      [] chr = "*" -> "Asterisk"
      [] chr = "%" -> "Percentage"
      [] OTHER -> "Invalid"

(***************************************************************************)
(* lex_source.  lexer.state and lexer.flag are ParsingState (flag is       *)
(* escaped of String and found_asterisk of Comment); lexer.idx is the byte *)
(* index of the next character and lexer.pos the number of characters the  *)
(* loop has consumed.  lexer.result is "running" until lex_source returns. *)
(***************************************************************************)
LexerInit ==
    [state |-> "None", flag |-> FALSE, start |-> 0, idx |-> 0, pos |-> 0,
     tokens |-> <<>>, result |-> "running", err |-> <<>>]

\* CurrentPosition with the end one past the current index
CurrentPositionEndAfter(L, off, id) == Span(off + L.start, L.idx + 1, id)

\* current_position!()
CurrentPosition(L, off, id) == Span(off + L.start, L.idx, id)

\* push_token!: a refused push makes lex_source return Ok(())
PushToken(L, t, v, off, id, open) ==
    IF open
    THEN [L EXCEPT !.tokens = Append(@, Token(t, v, CurrentPosition(L, off, id)))]
    ELSE [L EXCEPT !.result = "Ok"]

\* push_token!(T(source[from..to])): the slice is taken first and may panic
PushSlice(L, t, src, from, to, off, id, open) ==
    IF SliceOk(src, from, to)
    THEN PushToken(L, t, Slice(src, from, to), off, id, open)
    ELSE [L EXCEPT !.result = "Panic"]

\* set_state!, reached only when the push before it did not return
SetState(L, s, flag) ==
    IF L.result = "running"
    THEN [L EXCEPT !.state = s, !.flag = flag, !.start = L.idx]
    ELSE L

\* the `match state` of the loop body
LexMatchState(L, chr, src, off, id, open) ==
    CASE L.state = "Ident" ->
            IF IsIdentChar(chr) THEN L
            ELSE SetState(PushSlice(L, "Ident", src, L.start, L.idx, off, id, open),
                          "None", FALSE)
      [] L.state = "HashPrefixedValue" ->
            IF IsIdentChar(chr) THEN L
            ELSE SetState(PushSlice(L, "HashPrefixedValue", src, L.start + 1, L.idx,
                                    off, id, open),
                          "None", FALSE)
      [] L.state = "Dot" ->
            IF IsDigit(chr) THEN [L EXCEPT !.state = "Number"]
            ELSE SetState(PushToken(L, "Dot", <<>>, off, id, open), "Ident", FALSE)
      [] L.state = "Number" ->
            IF IsNumberChar(chr) THEN L
            ELSE SetState(PushSlice(L, "Number", src, L.start, L.idx, off, id, open),
                          "None", FALSE)
      [] L.state = "String" ->
            IF chr = "\\" THEN [L EXCEPT !.flag = TRUE]
            ELSE IF chr = "\"" /\ ~L.flag
            THEN SetState(PushSlice(L, "String", src, L.start + 1, L.idx, off, id, open),
                          "None", FALSE)
            ELSE [L EXCEPT !.flag = FALSE]
      [] L.state = "Comment" ->
            IF chr = "/" /\ L.flag
            THEN SetState(PushSlice(L, "Comment", src, L.start + 2, L.idx - 1,
                                    off, id, open),
                          "None", FALSE)
            ELSE [L EXCEPT !.flag = (chr = "*")]
      [] OTHER -> L

\* the two arms of `match state` that end with `continue`
LexContinues(L, chr) ==
    \/ L.state = "String" /\ chr = "\"" /\ ~L.flag
    \/ L.state = "Comment" /\ chr = "/" /\ L.flag

\* the `if state == ParsingState::None` of the loop body
LexFromNone(L, chr, off, id, open) ==
    CASE IsAlpha(chr) -> SetState(L, "Ident", FALSE)
      [] chr = "/" -> SetState(L, "Comment", TRUE)
      [] chr = "." -> SetState(L, "Dot", FALSE)
      [] chr = "\"" -> SetState(L, "String", FALSE)
      [] chr = "#" -> SetState(L, "HashPrefixedValue", FALSE)
      [] IsDigit(chr) -> SetState(L, "Number", FALSE)
      [] IsWhitespace(chr) -> L
      [] OTHER ->
            IF Punctuation(chr) = "Invalid"
            THEN [L EXCEPT !.result = "Err",
                           !.err = <<ParseError(Reason("Invalid character", "", chr, <<>>),
                                                CurrentPosition(L, off, id))>>]
            ELSE PushToken([L EXCEPT !.start = L.idx], Punctuation(chr), <<>>,
                           off, id, open)

\* one iteration of `for (idx, chr) in source.char_indices()`
LexStep(L, src, off, id, open) ==
    LET chr == src[L.pos + 1]
        L1 == LexMatchState(L, chr, src, off, id, open)
        L2 == IF L1.result = "running" /\ L1.state = "None" /\ ~LexContinues(L, chr)
              THEN LexFromNone(L1, chr, off, id, open)
              ELSE L1
    IN  IF L2.result = "running"
        THEN [L2 EXCEPT !.pos = @ + 1, !.idx = @ + Utf8Len(chr)]
        ELSE L2

\* sender.push(..) after the loop: the result is not looked at
PushFinal(L, t, v, sp, open) ==
    IF open THEN [L EXCEPT !.tokens = Append(@, Token(t, v, sp))] ELSE L

\* LexPushEOS with the end taken as a count of characters, not of bytes
LexPushEOSCountingChars(L, src, id, open) ==
    [PushFinal(L, "EOS", <<>>, Span(Len(src), Len(src), id), open)
        EXCEPT !.result = "Ok"]

\* the final push of the EOS token and Ok(())
LexPushEOS(L, src, id, open) ==
    [PushFinal(L, "EOS", <<>>, Span(ByteLen(src), ByteLen(src), id), open)
        EXCEPT !.result = "Ok"]

LexFinishError(L, msg, src, id) ==
    [L EXCEPT !.result = "Err",
              !.err = <<ParseError(Reason(msg, "", "", <<>>),
                                   Span(L.start, ByteLen(src), id))>>]

\* LexFinish with a trailing `.` flushed as a Dot token instead of refused
LexFinishFlushingDot(L, src, id, open) ==
    CASE L.state = "Dot" ->
            LexPushEOS(PushFinal(L, "Dot", <<>>, Span(L.start, ByteLen(src), id), open),
                       src, id, open)
      [] L.state \in {"Comment", "String"} ->
            LexFinishError(L, "Could not find end", src, id)
      [] L.state \in {"Ident", "Number"} ->
            LexPushEOS(PushFinal(L, L.state, Slice(src, L.start, ByteLen(src)),
                                 Span(L.start, ByteLen(src), id), open), src, id, open)
      [] L.state = "HashPrefixedValue" ->
            LexPushEOS(PushFinal(L, L.state, Slice(src, L.start + 1, ByteLen(src)),
                                 Span(L.start, ByteLen(src), id), open), src, id, open)
      [] OTHER -> LexPushEOS(L, src, id, open)

\* the `match state` after the loop
LexFinish(L, src, id, open) ==
    LET end_of_source == ByteLen(src)
        last == Span(L.start, end_of_source, id)
    IN  CASE L.state = "Ident" ->
                LexPushEOS(PushFinal(L, "Ident", Slice(src, L.start, end_of_source),
                                     last, open), src, id, open)
          [] L.state = "Number" ->
                LexPushEOS(PushFinal(L, "Number", Slice(src, L.start, end_of_source),
                                     last, open), src, id, open)
          [] L.state = "HashPrefixedValue" ->
                LexPushEOS(PushFinal(L, "HashPrefixedValue",
                                     Slice(src, L.start + 1, end_of_source),
                                     last, open), src, id, open)
          [] L.state = "Comment" ->
                LexFinishError(L, "Could not find end to comment", src, id)
          [] L.state = "String" ->
                LexFinishError(L, "Could not find end to string", src, id)
          [] L.state = "Dot" ->
                LexFinishError(L, "Found trailing \".\"", src, id)
          [] OTHER -> LexPushEOS(L, src, id, open)

(***************************************************************************)
(* The token reader (tokenizer_lib) over the tokens the lexer pushed: toks *)
(* is the channel's content and p the index of the next token.  A parsing  *)
(* function returns res ("Ok", "Err" or "Panic"), the value, the reader's  *)
(* position afterwards, and the error.                                     *)
(***************************************************************************)
OkR(v, p) == [res |-> "Ok", val |-> <<v>>, p |-> p, err |-> <<>>]

ErrR(e, p) == [res |-> "Err", val |-> <<>>, p |-> p, err |-> <<e>>]

\* a panic: unwrap of None, unreachable!(), todo!(), a slice out of range
PanicR(p) == [res |-> "Panic", val |-> <<>>, p |-> p, err |-> <<>>]

\* reader.peek()
Peek(toks, p) == IF p <= Len(toks) THEN <<toks[p]>> ELSE <<>>

\* Span::is_adjacent_to
IsAdjacentTo(a, b) == a.source_id = b.source_id /\ a.end = b.start

\* Span::union
Union(a, b) == Span(a.start, b.end, a.source_id)

\* reader.expect_next(t): Ok(span), Err(Some((t, token))) or, at the end of
\* the channel, Err(None); err holds the Option
ExpectNext(toks, p, t) ==
    IF p > Len(toks) THEN [res |-> "Err", val |-> <<>>, p |-> p, err |-> <<>>]
    ELSE IF toks[p].type = t THEN OkR(toks[p].span, p + 1)
    ELSE [res |-> "Err", val |-> <<>>, p |-> p + 1, err |-> <<toks[p]>>]

\* impl From<Option<(CSSToken, Token)>> for ParseError: None is unreachable!()
FromOption(r, t) ==
    IF r.res # "Err" THEN r
    ELSE IF r.err = <<>> THEN PanicR(r.p)
    ELSE ErrR(ParseError(Reason("Expected", t, r.err[1].type, r.err[1].value),
                         r.err[1].span), r.p)

\* reader.expect_next(t)?
ExpectNextTry(toks, p, t) == FromOption(ExpectNext(toks, p, t), t)

\* token_as_ident(token), the token taken from position p - 1
TokenAsIdent(token, p) ==
    IF token.type = "Ident" THEN OkR(<<token.value, token.span>>, p)
    ELSE ErrR(ParseError(Reason("Expected ident found", "", token.type, token.value),
                         token.span), p)

(***************************************************************************)
(* Selector::from_reader                                                   *)
(***************************************************************************)
EmptySelector ==
    [tag_name |-> <<>>, identifier |-> <<>>, class_names |-> <<>>,
     descendant |-> <<>>, child |-> <<>>, position |-> <<>>]

\* `if let Some(pos) = selector.position { pos.union(&other) } else { Some(first) }`
ExtendPosition(sel, first, other) ==
    IF sel.position = <<>> THEN <<first>> ELSE <<Union(sel.position[1], other)>>

\* StartsDescendant without the exception for `>`
StartsDescendantAlsoOnAngle(sel, peek, first) ==
    ~first /\ ~IsAdjacentTo(sel.position[1], peek.span)

\* the guard of the descendant branch: not the first fragment, not `>`, and a
\* gap between the selector so far and the next token
StartsDescendant(sel, peek, first) ==
    /\ ~first
    /\ peek.type # "CloseAngle"
    /\ ~IsAdjacentTo(sel.position[1], peek.span)

RECURSIVE SelectorFromReader(_, _)
RECURSIVE SelectorLoop(_, _, _, _)
RECURSIVE SelectorNext(_, _, _)

\* the check at the end of an iteration: `{` or EOS ends the selector
SelectorAfter(toks, p, sel) ==
    IF Peek(toks, p) # <<>> /\ toks[p].type \in {"OpenCurly", "EOS"}
    THEN OkR(sel, p)
    ELSE SelectorLoop(toks, p, sel, FALSE)

\* `match reader.next().unwrap()`; the token is toks[p]
SelectorNext(toks, p, sel) ==
    LET token == toks[p]
    IN  CASE token.type \in {"Ident", "Asterisk"} ->
                IF sel.tag_name # <<>>
                THEN ErrR(ParseError(Reason("Tag name specified twice", "", "", <<>>),
                                     token.span), p + 1)
                ELSE SelectorAfter(toks, p + 1,
                        [sel EXCEPT !.tag_name = <<IF token.type = "Ident"
                                                   THEN token.value ELSE <<"*">> >>,
                                    !.position = <<token.span>>])
          [] token.type = "Dot" ->
                IF p + 1 > Len(toks) THEN PanicR(p + 1)
                ELSE LET name == TokenAsIdent(toks[p + 1], p + 2)
                     IN  IF name.res # "Ok" THEN name
                         ELSE SelectorAfter(toks, p + 2,
                                [sel EXCEPT
                                   !.class_names =
                                       <<Append(IF @ = <<>> THEN <<>> ELSE @[1],
                                                name.val[1][1])>>,
                                   !.position =
                                       ExtendPosition(sel,
                                           Union(token.span, name.val[1][2]),
                                           name.val[1][2])])
          [] token.type = "HashPrefixedValue" ->
                IF sel.identifier # <<>>
                THEN ErrR(ParseError(Reason("Cannot specify to id selectors", "", "", <<>>),
                                     token.span), p + 1)
                ELSE SelectorAfter(toks, p + 1,
                        [sel EXCEPT !.identifier = <<token.value>>,
                                    !.position = ExtendPosition(sel, token.span,
                                                                token.span)])
          [] token.type = "CloseAngle" ->
                LET child == SelectorFromReader(toks, p + 1)
                IN  IF child.res # "Ok" THEN child
                    ELSE IF sel.position = <<>>
                    THEN ErrR(ParseError(Reason("Expected selector start, found '>'",
                                                "", "", <<>>), token.span), child.p)
                    ELSE OkR([sel EXCEPT !.child = child.val,
                                         !.position = <<Union(sel.position[1],
                                                              token.span)>>],
                             child.p)
          [] OTHER ->
                ErrR(ParseError(Reason("Expected valid selector found", "",
                                       token.type, token.value), token.span), p + 1)

\* one iteration of `for i in 0..`; first is i = 0
SelectorLoop(toks, p, sel, first) ==
    IF Peek(toks, p) = <<>> THEN PanicR(p)
    ELSE LET peek == toks[p]
         IN  IF peek.type = "Comma" THEN OkR(sel, p)
             ELSE IF ~first /\ peek.type # "CloseAngle" /\ sel.position = <<>>
             THEN PanicR(p)
             ELSE IF StartsDescendant(sel, peek, first)
             THEN LET d == SelectorFromReader(toks, p)
                  IN  IF d.res # "Ok" THEN d
                      ELSE OkR([sel EXCEPT !.descendant = d.val], d.p)
             ELSE SelectorNext(toks, p, sel)

SelectorFromReader(toks, p) == SelectorLoop(toks, p, EmptySelector, TRUE)

(***************************************************************************)
(* CSSValue::from_reader                                                   *)
(***************************************************************************)
CSSValue(kind, text, unit, items) ==
    [kind |-> kind, text |-> text, unit |-> unit, items |-> items]

\* CSSValue::single_value_from_reader
SingleValueFromReader(toks, p) ==
    IF p > Len(toks) THEN PanicR(p)
    ELSE LET token == toks[p]
         IN  CASE token.type = "Ident" ->
                    IF p + 1 > Len(toks) THEN PanicR(p + 1)
                    ELSE IF /\ toks[p + 1].type = "OpenBracket"
                            /\ IsAdjacentTo(token.span, toks[p + 1].span)
                    THEN LET close == ExpectNextTry(toks, p + 2, "CloseBracket")
                         IN  IF close.res # "Ok" THEN close ELSE PanicR(close.p)
                    ELSE OkR(CSSValue("Keyword", token.value, <<>>, <<>>), p + 1)
               [] token.type = "HashPrefixedValue" ->
                    OkR(CSSValue("Color", token.value, <<>>, <<>>), p + 1)
               [] token.type = "Number" ->
                    IF p + 1 > Len(toks) THEN PanicR(p + 1)
                    ELSE IF /\ IsAdjacentTo(token.span, toks[p + 1].span)
                            /\ toks[p + 1].type \notin {"EOS", "SemiColon"}
                    THEN CASE toks[p + 1].type = "Percentage" ->
                                OkR(CSSValue("Percentage", token.value, <<>>, <<>>), p + 2)
                           [] toks[p + 1].type = "Ident" ->
                                OkR(CSSValue("NumberWithUnit", token.value,
                                             toks[p + 1].value, <<>>), p + 2)
                           [] OTHER ->
                                OkR(CSSValue("Number", token.value, <<>>, <<>>), p + 1)
                    ELSE OkR(CSSValue("Number", token.value, <<>>, <<>>), p + 1)
               [] token.type = "String" ->
                    OkR(CSSValue("StringLiteral", token.value, <<>>, <<>>), p + 1)
               [] OTHER ->
                    ErrR(ParseError(Reason("Expected value, found", "", token.type,
                                           token.value), token.span), p + 1)

\* css_value_has_ended!(), the peeked token being there
CssValueHasEnded(toks, p) == toks[p].type \in {"EOS", "SemiColon", "CloseCurly"}

RECURSIVE ValueList(_, _, _)
\* `while !css_value_has_ended!() { values.push(single_value_from_reader?) }`
ValueList(toks, p, values) ==
    IF Peek(toks, p) = <<>> THEN PanicR(p)
    ELSE IF CssValueHasEnded(toks, p)
    THEN OkR(CSSValue("List", <<>>, <<>>, values), p)
    ELSE LET v == SingleValueFromReader(toks, p)
         IN  IF v.res # "Ok" THEN v ELSE ValueList(toks, v.p, Append(values, v.val[1]))

CSSValueFromReader(toks, p) ==
    LET value == SingleValueFromReader(toks, p)
    IN  IF value.res # "Ok" THEN value
        ELSE IF Peek(toks, value.p) = <<>> THEN PanicR(value.p)
        ELSE IF CssValueHasEnded(toks, value.p) THEN value
        ELSE ValueList(toks, value.p, value.val)

(***************************************************************************)
(* Rule::from_reader and StyleSheet::from_reader                           *)
(***************************************************************************)
RECURSIVE ScanIsRuleIgnoringColon(_, _)
\* the scan with a closure that lets `:` pass: the first of `}` and `{` decides
ScanIsRuleIgnoringColon(toks, p) ==
    IF p > Len(toks) THEN FALSE
    ELSE IF toks[p].type = "CloseCurly" THEN FALSE
    ELSE IF toks[p].type = "OpenCurly" THEN TRUE
    ELSE ScanIsRuleIgnoringColon(toks, p + 1)

\* reader.scan(..): the first of `:`, `}` and `{` among the coming tokens
\* decides; is_rule.unwrap_or_default()
RECURSIVE ScanIsRule(_, _)
ScanIsRule(toks, p) ==
    IF p > Len(toks) THEN FALSE
    ELSE IF toks[p].type \in {"Colon", "CloseCurly"} THEN FALSE
    ELSE IF toks[p].type = "OpenCurly" THEN TRUE
    ELSE ScanIsRule(toks, p + 1)

RECURSIVE RuleFromReader(_, _)
RECURSIVE RuleSelectors(_, _, _)
RECURSIVE RuleBody(_, _, _, _)

\* `while let Token(Comma, _) = reader.peek().unwrap()`
RuleSelectors(toks, p, selectors) ==
    IF Peek(toks, p) = <<>> THEN PanicR(p)
    ELSE IF toks[p].type # "Comma" THEN OkR(selectors, p)
    ELSE LET s == SelectorFromReader(toks, p + 1)
         IN  IF s.res # "Ok" THEN s
             ELSE RuleSelectors(toks, s.p, Append(selectors, s.val[1]))

\* the loop over the block and the closing `}`
RuleBody(toks, p, rule, first_span) ==
    IF Peek(toks, p) = <<>> \/ toks[p].type = "CloseCurly"
    THEN LET last == ExpectNextTry(toks, p, "CloseCurly")
         IN  IF last.res # "Ok" THEN last
             ELSE OkR([rule EXCEPT !.position = <<Union(first_span, last.val[1])>>],
                      last.p)
    ELSE IF ScanIsRule(toks, p)
    THEN LET nested == RuleFromReader(toks, p)
         IN  IF nested.res # "Ok" THEN nested
             ELSE RuleBody(toks, nested.p,
                     [rule EXCEPT !.nested_rules =
                         <<Append(IF @ = <<>> THEN <<>> ELSE @[1], nested.val[1])>>],
                     first_span)
    ELSE LET name == TokenAsIdent(toks[p], p + 1)
             colon == ExpectNextTry(toks, p + 1, "Colon")
             value == CSSValueFromReader(toks, colon.p)
             declared == [rule EXCEPT !.declarations =
                             Append(@, <<name.val[1][1], value.val[1]>>)]
         IN  IF name.res # "Ok" THEN name
             ELSE IF colon.res # "Ok" THEN colon
             ELSE IF value.res # "Ok" THEN value
             ELSE IF value.p > Len(toks) THEN PanicR(value.p)
             ELSE IF toks[value.p].type = "CloseCurly"
             THEN OkR([declared EXCEPT
                          !.position = <<Union(first_span, toks[value.p].span)>>],
                      value.p + 1)
             ELSE RuleBody(toks, value.p + 1, declared, first_span)

RuleFromReader(toks, p) ==
    LET first == SelectorFromReader(toks, p)
        selectors == RuleSelectors(toks, first.p, first.val)
        open == ExpectNextTry(toks, selectors.p, "OpenCurly")
    IN  IF first.res # "Ok" THEN first
        ELSE IF selectors.res # "Ok" THEN selectors
        ELSE IF selectors.val[1][1].position = <<>> THEN PanicR(selectors.p)
        ELSE IF open.res # "Ok" THEN open
        ELSE RuleBody(toks, open.p,
                [selectors |-> selectors.val[1], nested_rules |-> <<>>,
                 declarations |-> <<>>, position |-> <<>>],
                selectors.val[1][1].position[1])

RECURSIVE StyleSheetRules(_, _, _)
\* `while reader.peek().is_some() && reader.peek().unwrap().0 != EOS`
StyleSheetRules(toks, p, rules) ==
    IF Peek(toks, p) = <<>> \/ toks[p].type = "EOS"
    THEN OkR([rules |-> rules], p)
    ELSE LET rule == RuleFromReader(toks, p)
         IN  IF rule.res # "Ok" THEN rule
             ELSE StyleSheetRules(toks, rule.p, Append(rules, rule.val[1]))

StyleSheetFromReader(toks, p) == StyleSheetRules(toks, p, <<>>)

\* Self::from_reader of the four ASTNodes
FromReader(node, toks, p) ==
    CASE node = "StyleSheet" -> StyleSheetFromReader(toks, p)
      [] node = "Rule" -> RuleFromReader(toks, p)
      [] node = "Selector" -> SelectorFromReader(toks, p)
      [] node = "CSSValue" -> CSSValueFromReader(toks, p)

\* `reader.expect_next(CSSToken::EOS)?; this`
ExpectEOSThenThis(this, toks) ==
    LET eos == ExpectNextTry(toks, this.p, "EOS")
    IN  IF eos.res # "Ok" THEN eos ELSE [this EXCEPT !.p = eos.p]

(***************************************************************************)
(* to_string_from_buffer, with no source map attached: the pushes of the   *)
(* buffer in order.                                                        *)
(***************************************************************************)
\* str::repeat
RECURSIVE Repeat(_, _)
Repeat(text, n) == IF n = 0 THEN <<>> ELSE text \o Repeat(text, n - 1)

\* ToStringSettings::default().indent_with and ToStringSettings::minified().indent_with
IndentWith(m) == IF m THEN <<>> ELSE <<" ", " ", " ", " ">>

RECURSIVE ClassNamesToString(_)
\* `for class_name in class_names.iter() { push('.'); push_str(class_name) }`
ClassNamesToString(class_names) ==
    IF class_names = <<>> THEN <<>>
    ELSE <<".">> \o Head(class_names) \o ClassNamesToString(Tail(class_names))

RECURSIVE SelectorToString(_, _)
SelectorToString(sel, m) ==
    (IF sel.tag_name # <<>> THEN sel.tag_name[1] ELSE <<>>)
    \o (IF sel.identifier # <<>> THEN <<"#">> \o sel.identifier[1] ELSE <<>>)
    \o (IF sel.class_names # <<>> THEN ClassNamesToString(sel.class_names[1]) ELSE <<>>)
    \o (IF sel.descendant # <<>>
        THEN <<" ">> \o SelectorToString(sel.descendant[1], m)
        ELSE IF sel.child # <<>>
        THEN (IF m THEN <<">">> ELSE <<" ", ">", " ">>)
             \o SelectorToString(sel.child[1], m)
        ELSE <<>>)

RECURSIVE ValueToString(_, _)
RECURSIVE ValueListToString(_, _)
\* Self::List: a space after every value but the last, unless minify
ValueListToString(values, m) ==
    IF values = <<>> THEN <<>>
    ELSE ValueToString(Head(values), m)
         \o (IF Len(values) > 1 /\ ~m THEN <<" ">> ELSE <<>>)
         \o ValueListToString(Tail(values), m)

ValueToString(v, m) ==
    CASE v.kind = "Keyword" -> v.text
      [] v.kind = "Color" -> <<"#">> \o v.text
      [] v.kind = "StringLiteral" -> <<"\"">> \o v.text \o <<"\"">>
      [] v.kind = "Percentage" -> v.text \o <<"%">>
      [] v.kind = "Number" -> v.text
      [] v.kind = "NumberWithUnit" -> v.text \o v.unit
      [] v.kind = "List" -> ValueListToString(v.items, m)

RECURSIVE SelectorsToString(_, _)
\* the selectors of a rule, `,` or `, ` after every one but the last
SelectorsToString(selectors, m) ==
    IF selectors = <<>> THEN <<>>
    ELSE SelectorToString(Head(selectors), m)
         \o (IF Len(selectors) > 1 THEN (IF m THEN <<",">> ELSE <<",", " ">>) ELSE <<>>)
         \o SelectorsToString(Tail(selectors), m)

\* DeclarationToString with no `;` after the last declaration when minifying
DeclarationToStringNoLastSemicolon(decl, isLast, m, depth) ==
    (IF ~m THEN <<"\n">> \o Repeat(IndentWith(m), depth + 1) ELSE <<>>)
    \o decl[1] \o <<":">>
    \o (IF ~m THEN <<" ">> ELSE <<>>)
    \o ValueToString(decl[2], m)
    \o (IF m /\ isLast THEN <<>> ELSE <<";">>)
    \o (IF ~m /\ isLast THEN <<"\n">> \o Repeat(IndentWith(m), depth) ELSE <<>>)

\* what the loop over the declarations writes for one declaration
DeclarationToString(decl, isLast, m, depth) ==
    (IF ~m THEN <<"\n">> \o Repeat(IndentWith(m), depth + 1) ELSE <<>>)
    \o decl[1] \o <<":">>
    \o (IF ~m THEN <<" ">> ELSE <<>>)
    \o ValueToString(decl[2], m)
    \o <<";">>
    \o (IF ~m /\ isLast THEN <<"\n">> \o Repeat(IndentWith(m), depth) ELSE <<>>)

RECURSIVE DeclarationsToString(_, _, _)
DeclarationsToString(decls, m, depth) ==
    IF decls = <<>> THEN <<>>
    ELSE DeclarationToString(Head(decls), Len(decls) = 1, m, depth)
         \o DeclarationsToString(Tail(decls), m, depth)

\* Rule::to_string_from_buffer
RuleToString(rule, m, depth) ==
    SelectorsToString(rule.selectors, m)
    \o (IF ~m THEN <<" ">> ELSE <<>>)
    \o <<"{">>
    \o DeclarationsToString(rule.declarations, m, depth)
    \o <<"}">>

RECURSIVE StyleSheetToString(_, _)
\* StyleSheet::to_string_from_buffer: two new lines between rules, unless minify
StyleSheetToString(rules, m) ==
    IF rules = <<>> THEN <<>>
    ELSE RuleToString(Head(rules), m, 0)
         \o (IF ~m /\ Len(rules) > 1 THEN <<"\n", "\n">> ELSE <<>>)
         \o StyleSheetToString(Tail(rules), m)

\* ASTNode::to_string
ToStringOf(node, val, m) ==
    CASE node = "StyleSheet" -> StyleSheetToString(val.rules, m)
      [] node = "Rule" -> RuleToString(val, m, 0)
      [] node = "Selector" -> SelectorToString(val, m)
      [] node = "CSSValue" -> ValueToString(val, m)

(***************************************************************************)
(* vlq_encode_integer_to_buffer.  vlq.value is the local `value`, vlq.buf  *)
(* what was pushed to the buffer, vlq.input the argument.  The inputs are  *)
(* small enough for no shift to leave the range of isize.                  *)
(***************************************************************************)
BASE64_ALPHABET ==
    <<"A", "B", "C", "D", "E", "F", "G", "H", "I", "J", "K", "L", "M", "N", "O", "P",
       "Q", "R", "S", "T", "U", "V", "W", "X", "Y", "Z", "a", "b", "c", "d", "e", "f",
       "g", "h", "i", "j", "k", "l", "m", "n", "o", "p", "q", "r", "s", "t", "u", "v",
       "w", "x", "y", "z", "0", "1", "2", "3", "4", "5", "6", "7", "8", "9", "+", "/">>

\* VlqFoldSign without the sign bit of a negative value
VlqFoldSignDroppingSign(value) == IF value < 0 THEN (-value) * 2 ELSE value * 2

\* `if value.is_negative() { value = (-value << 1) | 1 } else { value <<= 1 }`
VlqFoldSign(value) == IF value < 0 THEN (-value) * 2 + 1 ELSE value * 2

\* `let mut clamped = value & 31; value >>= 5; if value > 0 { clamped |= 32 }`
VlqClamped(value) == (value % 32) + (IF value \div 32 > 0 THEN 32 ELSE 0)

(***************************************************************************)
(* The driver.                                                             *)
(***************************************************************************)
NoResult == [res |-> "None", val |-> <<>>, p |-> 0, err |-> <<>>]

VlqIdle == [value |-> 0, input |-> 0, buf |-> <<>>, pc |-> "idle"]

\* what every specification starts from, the input apart
InitRest ==
    /\ source_id = 0
    /\ recvOpen = TRUE
    /\ lexer = LexerInit
    /\ pc = "lex"
    /\ parseResult = NoResult
    /\ outcome = NoResult
    /\ minify = FALSE
    /\ rendered = <<>>
    /\ round = 1
    /\ firstRender = <<>>
    /\ received = 0
    /\ style_sheet = <<>>
    /\ source_map = <<>>
    /\ adjacency = <<>>
    /\ calls = <<>>
    /\ SOURCE_IDS = [thread \in Threads |-> {}]
    /\ SOURCE_ID_COUNTER = 0
    /\ parsed = <<>>

\* the loop of lex_source takes one character
LexChar ==
    /\ pc = "lex"
    /\ lexer.result = "running"
    /\ lexer.pos < Len(source)
    /\ lexer' = LexStep(lexer, source, start_offset, source_id, recvOpen)
    /\ UNCHANGED <<entry, source, start_offset, source_id, recvOpen, pc, parseResult,
                   outcome, minify, rendered, round, firstRender, vlq,
                   received, style_sheet, source_map, adjacency, calls,
                   SOURCE_IDS, SOURCE_ID_COUNTER, parsed>>

\* the input is used up: the last token is flushed and EOS pushed
LexEnd ==
    /\ pc = "lex"
    /\ lexer.result = "running"
    /\ lexer.pos = Len(source)
    /\ lexer' = LexFinish(lexer, source, source_id, recvOpen)
    /\ UNCHANGED <<entry, source, start_offset, source_id, recvOpen, pc, parseResult,
                   outcome, minify, rendered, round, firstRender, vlq,
                   received, style_sheet, source_map, adjacency, calls,
                   SOURCE_IDS, SOURCE_ID_COUNTER, parsed>>

\* from_string: `lex_source(..)?` returned an error (or panicked)
LexFail ==
    /\ pc = "lex"
    /\ entry # "lex_source"
    /\ lexer.result \in {"Err", "Panic"}
    /\ outcome' = [res |-> lexer.result, val |-> <<>>, p |-> 0, err |-> lexer.err]
    /\ pc' = "done"
    /\ UNCHANGED <<entry, source, start_offset, source_id, recvOpen, lexer, parseResult,
                   minify, rendered, round, firstRender, vlq,
                   received, style_sheet, source_map, adjacency, calls,
                   SOURCE_IDS, SOURCE_ID_COUNTER, parsed>>

\* from_string: `let this = Self::from_reader(&mut reader)`
ParseFromReader ==
    /\ pc = "lex"
    /\ entry # "lex_source"
    /\ lexer.result = "Ok"
    /\ parseResult' = FromReader(entry, lexer.tokens, 1)
    /\ IF parseResult'.res = "Panic"
       THEN pc' = "done" /\ outcome' = parseResult'
       ELSE pc' = "expect_eos" /\ outcome' = outcome
    /\ UNCHANGED <<entry, source, start_offset, source_id, recvOpen, lexer,
                   minify, rendered, round, firstRender, vlq,
                   received, style_sheet, source_map, adjacency, calls,
                   SOURCE_IDS, SOURCE_ID_COUNTER, parsed>>

\* from_string: `reader.expect_next(CSSToken::EOS)?; this`
ExpectEOS ==
    /\ pc = "expect_eos"
    /\ outcome' = ExpectEOSThenThis(parseResult, lexer.tokens)
    /\ pc' = "done"
    /\ UNCHANGED <<entry, source, start_offset, source_id, recvOpen, lexer, parseResult,
                   minify, rendered, round, firstRender, vlq,
                   received, style_sheet, source_map, adjacency, calls,
                   SOURCE_IDS, SOURCE_ID_COUNTER, parsed>>

\* to_string(&settings) of the parsed node; the second round keeps the settings
ToString ==
    /\ pc = "done"
    /\ outcome.res = "Ok"
    /\ \E m \in (IF round = 1 THEN BOOLEAN ELSE {minify}) :
          /\ minify' = m
          /\ rendered' = ToStringOf(entry, outcome.val[1], m)
    /\ pc' = "rendered"
    /\ UNCHANGED <<entry, source, start_offset, source_id, recvOpen, lexer, parseResult,
                   outcome, round, firstRender, vlq,
                   received, style_sheet, source_map, adjacency, calls,
                   SOURCE_IDS, SOURCE_ID_COUNTER, parsed>>

\* the rendered text is parsed again by the same from_string; the style
\* sheet it was rendered from is kept
ParseAgain ==
    /\ pc = "rendered"
    /\ round = 1
    /\ round' = 2
    /\ firstRender' = rendered
    /\ style_sheet' = IF entry = "StyleSheet" THEN <<outcome.val[1]>> ELSE style_sheet
    /\ source' = rendered
    /\ lexer' = LexerInit
    /\ parseResult' = NoResult
    /\ outcome' = NoResult
    /\ rendered' = <<>>
    /\ pc' = "lex"
    /\ UNCHANGED <<entry, start_offset, source_id, recvOpen, minify, vlq,
                   received, source_map, adjacency, calls,
                   SOURCE_IDS, SOURCE_ID_COUNTER, parsed>>

(***************************************************************************)
(* The lexer alone, on every text of at most MaxLexLen characters.         *)
(***************************************************************************)
LexAlphabet == {"a", "1", ".", "\"", "\\", "/", "*", " ", "{", "!", "U+00E9"}

Texts(alphabet, n) == UNION {[1..k -> alphabet] : k \in 0..n}

InitLex ==
    /\ entry = "lex_source"
    /\ source \in Texts(LexAlphabet, MaxLexLen)
    /\ start_offset \in 0..MaxOffset
    /\ vlq = VlqIdle
    /\ InitRest

NextLex == LexChar \/ LexEnd

SpecLex == InitLex /\ [][NextLex]_vars

(***************************************************************************)
(* from_string and to_string of the four ASTNodes.                         *)
(***************************************************************************)
MaxLen == 3
MaxValueLen == 4
MaxGap == 2

Entries == {"StyleSheet", "Rule", "Selector", "CSSValue"}

\* every text of at most MaxLen characters, for each of the four ASTNodes
Alphabet == {"a", " ", "{", "}", ":", "(", ")", "*", "."}

FreeInputs == Entries \X Texts(Alphabet, MaxLen)

\* value texts: numbers, identifiers, `%` and white space
ValueAlphabet == {"1", ".", "a", "-", "%", " "}

ValueInputs == {"CSSValue"} \X Texts(ValueAlphabet, MaxValueLen)

\* selector texts: two simple selectors with a combinator between them
SimpleSelectors == {<<"a">>, <<"h", "1">>, <<"*">>, <<".", "c">>, <<"#", "i">>}

Gaps == {Repeat(<<ws>>, n) : ws \in {" ", "\n"}, n \in 1..MaxGap}

ChildTexts == {A \o g1 \o <<">">> \o g2 \o B :
                  A \in SimpleSelectors, B \in SimpleSelectors,
                  g1 \in {<<" ">>}, g2 \in {<<" ">>}}

DescendantTexts == {A \o g \o B : A \in SimpleSelectors, B \in SimpleSelectors, g \in Gaps}

\* a simple selector with a class or an id written right after it
Suffixes == {<<".", "c">>, <<"#", "i">>}

CompoundTexts ==
    {A \o B : A \in SimpleSelectors, B \in Suffixes} \ {<<"#", "i", "#", "i">>}

SelectorInputs ==
    {"Selector"} \X (ChildTexts \cup DescendantTexts \cup CompoundTexts)

\* stylesheet texts in the layout to_string writes with the default settings:
\* `selectors {`, one `    name: value;` line per declaration, `}`, rules one
\* blank line apart; eol is the line break of the text
LayoutSelectors ==
    {<<"a">>,
     <<".", "c">>,
     <<"a", "#", "i", ".", "c">>,
     <<"a", " ", "b">>,
     <<"a", " ", ">", " ", "b">>,
     <<"*">>,
     <<"*", ".", "c">>,
     <<"a", ",", " ", ".", "c">>}

LayoutValues ==
    {<<"r", "e", "d">>,
     <<"1", "0", "p", "x">>,
     <<"5", "0", "%">>,
     <<"#", "0", "a", "0">>,
     <<"\"", "x", "\"">>,
     <<".", "5">>,
     <<"1", "p", "x", " ", "r", "e", "d">>}

LayoutDeclaration(name, value, eol) ==
    eol \o <<" ", " ", " ", " ">> \o name \o <<":", " ">> \o value \o <<";">>

LayoutBlocks(eol) ==
    {<<"{", "}">>}
    \cup {<<"{">> \o LayoutDeclaration(<<"c", "o", "l", "o", "r">>, v, eol) \o eol \o <<"}">> :
             v \in LayoutValues}
    \cup {<<"{">> \o LayoutDeclaration(<<"c", "o", "l", "o", "r">>, v, eol)
                 \o LayoutDeclaration(<<"b", "o", "r", "d", "e", "r">>, <<"1", "p", "x">>, eol) \o eol \o <<"}">> :
             v \in {<<"r", "e", "d">>, <<"1", "p", "x", " ", "r", "e", "d">>}}

LayoutRules(eol) == {sel \o <<" ">> \o b : sel \in LayoutSelectors, b \in LayoutBlocks(eol)}

LayoutTexts ==
    UNION {LayoutRules(eol)
           \cup {r \o eol \o eol \o <<"h", "1", " ", "{", "}">> : r \in LayoutRules(eol)} :
           eol \in {<<"\n">>, <<"\r", "\n">>}}

\* stylesheet texts in other layouts
H1Text == <<"h", "1", " ", "{", " ", "c", "o", "l", "o", "r", " ", ":", " ", "r", "e", "d", " ", ";", " ", "}">>

OtherTexts ==
    {H1Text,
     <<"a", "{", "b", ":", "c", "}">>,
     <<"a", ",", "b", ">", "c", "{", "b", ":", "1", " ", "a", ";", "c", ":", "d", "}">>,
     <<"#", "i", "*", "{", "}">>,
     <<"a", "{", "b", "{", "c", ":", "d", "}", "}">>,
     <<"/", "*", "a", "*", "/", "a", "{", "}">>,
     <<"a", "{", "}", "/", "*", "a", "*", "/", "b", "{", "}">>,
     <<"a", "{", "}", "/", "*", "a", "*", "/">>}

StyleSheetInputs == {"StyleSheet"} \X (LayoutTexts \cup OtherTexts)

\* rule texts with nested rules and declarations in either order
NestingTexts ==
    {<<"a", "{", "b", "{", "c", ":", "d", "}", "}">>,
     <<"a", "{", "b", ":", "c", ";", "d", "{", "e", ":", "a", "}", "}">>,
     <<"a", "{", "b", ":", "c", ";", "d", "{", "e", "{", "}", "}", "}">>,
     <<"a", "{", "b", "{", "}", "c", ":", "d", "}">>,
     <<"a", "{", "b", " ", "c", "{", "}", "d", "{", "x", ":", "a", ";", "}", "}">>,
     <<"a", "{", ".", "c", "{", "b", ":", "c", ";", "}", "}">>}

NestingInputs == {"Rule", "StyleSheet"} \X NestingTexts

Inputs ==
    FreeInputs \cup ValueInputs \cup SelectorInputs \cup StyleSheetInputs
        \cup NestingInputs

Init ==
    /\ \E input \in Inputs : entry = input[1] /\ source = input[2]
    /\ start_offset = 0
    /\ vlq = VlqIdle
    /\ InitRest

Next ==
    \/ LexChar
    \/ LexEnd
    \/ LexFail
    \/ ParseFromReader
    \/ ExpectEOS
    \/ ToString
    \/ ParseAgain

Spec == Init /\ [][Next]_vars

(***************************************************************************)
(* Claims about from_string and to_string.                                 *)
(***************************************************************************)
\* from_string has returned
Returned == pc = "done"

AllIn(t, set) == \A i \in 1..Len(t) : t[i] \in set

\* the text of a Number token: digits and `.` after a digit or after `.digit`
IsNumberText(t) ==
    /\ t # <<>>
    /\ AllIn(t, Digit \cup {"."})
    /\ t[1] \in Digit \/ (Len(t) >= 2 /\ t[2] \in Digit)

\* the text of an Ident token
IsIdentText(t) == t # <<>> /\ t[1] \in Alpha /\ AllIn(t, Alpha \cup Digit \cup {"-"})

IsGapText(t) == t # <<>> /\ AllIn(t, Whitespace)

ReturnedValue(v) == outcome.res = "Ok" /\ outcome.val = <<v>>

\* C3: a number with an identifier right after it parses as one
\* NumberWithUnit, with `%` right after it as a Percentage, and with white space
\* between number and identifier as the List of a Number and a Keyword.
C3_AdjacencyDecidesValue ==
    (Returned /\ entry = "CSSValue")
        => \A k \in 1..Len(source) : \A j \in k..Len(source) :
              LET number == SubSeq(source, 1, k)
                  gap == SubSeq(source, k + 1, j)
                  rest == SubSeq(source, j + 1, Len(source))
              IN  IsNumberText(number)
                    => /\ (gap = <<>> /\ IsIdentText(rest))
                            => ReturnedValue(CSSValue("NumberWithUnit", number, rest, <<>>))
                       /\ (gap = <<>> /\ rest = <<"%">>)
                            => ReturnedValue(CSSValue("Percentage", number, <<>>, <<>>))
                       /\ (IsGapText(gap) /\ IsIdentText(rest))
                            => ReturnedValue(CSSValue("List", <<>>, <<>>,
                                   <<CSSValue("Number", number, <<>>, <<>>),
                                     CSSValue("Keyword", rest, <<>>, <<>>)>>))

\* `.1a` has been parsed as a value
C3_Witness ==
    /\ Returned
    /\ entry = "CSSValue"
    /\ source = <<".", "1", "a">>
    /\ outcome.res = "Ok"
    /\ outcome.val[1].kind = "NumberWithUnit"

\* the selector a simple selector text stands for, links and position apart
IsSimple(sel, text) ==
    /\ sel.tag_name = (IF text[1] \in {".", "#"} THEN <<>> ELSE <<text>>)
    /\ sel.identifier = (IF text[1] = "#" THEN <<Tail(text)>> ELSE <<>>)
    /\ sel.class_names = (IF text[1] = "." THEN << <<Tail(text)>> >> ELSE <<>>)

IsLeaf(sel) == sel.descendant = <<>> /\ sel.child = <<>>

\* C4: `A > B` parses to A with child = Some(B) and no descendant; `A B`, with
\* white space only between them, to A with descendant = Some(B) and no child.
C4_ChildVersusDescendant ==
    (Returned /\ entry = "Selector")
        => \A A \in SimpleSelectors, B \in SimpleSelectors :
              /\ source = A \o <<" ", ">", " ">> \o B
                    => /\ outcome.res = "Ok"
                       /\ IsSimple(outcome.val[1], A)
                       /\ outcome.val[1].descendant = <<>>
                       /\ Len(outcome.val[1].child) = 1
                       /\ IsSimple(outcome.val[1].child[1], B)
                       /\ IsLeaf(outcome.val[1].child[1])
              /\ \A g \in Gaps :
                    source = A \o g \o B
                        => /\ outcome.res = "Ok"
                           /\ IsSimple(outcome.val[1], A)
                           /\ outcome.val[1].child = <<>>
                           /\ Len(outcome.val[1].descendant) = 1
                           /\ IsSimple(outcome.val[1].descendant[1], B)
                           /\ IsLeaf(outcome.val[1].descendant[1])

\* `.c > *` has been parsed as a selector
C4_Witness ==
    /\ Returned
    /\ entry = "Selector"
    /\ source = <<".", "c", " ", ">", " ", "*">>
    /\ outcome.res = "Ok"
    /\ Len(outcome.val[1].child) = 1

RECURSIVE StripCR(_)
\* the text with every `\r` removed
StripCR(t) ==
    IF t = <<>> THEN <<>>
    ELSE (IF Head(t) = "\r" THEN <<>> ELSE <<Head(t)>>) \o StripCR(Tail(t))

\* C1: round trip.  For a stylesheet text T of the supported grammar, written
\* in the layout the default settings write, parse(T) succeeds and rendering it
\* with the default settings gives T with every `\r` removed.
C1_RoundTrip ==
    (entry = "StyleSheet" /\ round = 1 /\ source \in LayoutTexts)
        => /\ Returned => outcome.res = "Ok"
           /\ (pc = "rendered" /\ ~minify) => rendered = StripCR(source)

\* C2: render after parse is idempotent.  The text rendered from a parsed text
\* parses again, and rendering that with the same settings gives the same text.
C2_RenderParseIdempotent ==
    round = 2
        => /\ Returned => outcome.res = "Ok"
           /\ pc = "rendered" => rendered = firstRender

\* the rules a rendered node holds
RenderedRules ==
    IF entry = "StyleSheet" THEN outcome.val[1].rules ELSE <<outcome.val[1]>>

RECURSIVE JoinTexts(_, _)
\* the texts with sep between them
JoinTexts(texts, sep) ==
    IF texts = <<>> THEN <<>>
    ELSE IF Len(texts) = 1 THEN texts[1]
    ELSE texts[1] \o sep \o JoinTexts(Tail(texts), sep)

\* selectors joined by `,`, `{`, `name:value;` for every declaration, `}`
MinifiedRuleShape(rule) ==
    JoinTexts([i \in 1..Len(rule.selectors) |-> SelectorToString(rule.selectors[i], TRUE)],
              <<",">>)
    \o <<"{">>
    \o JoinTexts([i \in 1..Len(rule.declarations) |->
                     rule.declarations[i][1] \o <<":">>
                     \o ValueToString(rule.declarations[i][2], TRUE) \o <<";">>],
                 <<>>)
    \o <<"}">>

C9_ParserNeverPanics ==
    /\ parseResult.res \in {"None", "Ok", "Err"}
    /\ parseResult.res = "Err" => Len(parseResult.err) = 1

\* C10: when from_reader fails with a ParseError, from_string returns that error.
C10_FirstErrorWins ==
    (Returned /\ parseResult.res = "Err")
        => outcome.res = "Err" /\ outcome.err = parseResult.err

(***************************************************************************)
(* Claims about the lexer.                                                 *)
(***************************************************************************)
EOSCount(tokens) == Cardinality({i \in 1..Len(tokens) : tokens[i].type = "EOS"})

\* lex_source has returned after the loop took the whole input
LexedWholeInput == lexer.result # "running" /\ lexer.pos = Len(source)

\* C7: when the input ends while the lexer is inside a string, inside a comment
\* or directly after a lone `.`, lex_source returns Err(ParseError) and has
\* pushed no EOS token.
C7_UnterminatedIsError ==
    (LexedWholeInput /\ lexer.state \in {"String", "Comment", "Dot"})
        => /\ lexer.result = "Err"
           /\ Len(lexer.err) = 1
           /\ EOSCount(lexer.tokens) = 0

\* an unterminated string after at least one pushed token
C7_Witness ==
    /\ LexedWholeInput
    /\ lexer.state = "String"
    /\ lexer.result = "Err"
    /\ Len(lexer.tokens) > 0

\* C8: when lex_source takes its whole input and returns Ok, exactly one EOS
\* token was pushed, it is the last token, and its span starts and ends at the
\* length of the input in bytes.
C8_ExactlyOneEOSLast ==
    (LexedWholeInput /\ lexer.result = "Ok")
        => /\ EOSCount(lexer.tokens) = 1
           /\ lexer.tokens[Len(lexer.tokens)].type = "EOS"
           /\ lexer.tokens[Len(lexer.tokens)].span.start = ByteLen(source)
           /\ lexer.tokens[Len(lexer.tokens)].span.end = ByteLen(source)

\* an input with a two-byte character and a token before EOS
C8_Witness ==
    /\ LexedWholeInput
    /\ lexer.result = "Ok"
    /\ Len(lexer.tokens) >= 2
    /\ ByteLen(source) > Len(source)

(***************************************************************************)
(* The VLQ encoder on every integer of -MaxVlq..MaxVlq and on the vectors  *)
(* of the test vlq_encoder.                                                *)
(***************************************************************************)
MaxVlq == 600

VlqInputs == (-MaxVlq..MaxVlq) \cup {123, 123456789}

InitVlq ==
    /\ entry = "vlq_encode_integer_to_buffer"
    /\ source = <<>>
    /\ start_offset = 0
    /\ vlq \in {[value |-> v, input |-> v, buf |-> <<>>, pc |-> "fold"] : v \in VlqInputs}
    /\ InitRest

\* the sign is folded into the low bit
VlqFold ==
    /\ vlq.pc = "fold"
    /\ vlq' = [vlq EXCEPT !.value = VlqFoldSign(@), !.pc = "loop"]
    /\ UNCHANGED <<entry, source, start_offset, source_id, recvOpen, lexer, pc,
                   parseResult, outcome, minify, rendered, round, firstRender,
                   received, style_sheet, source_map, adjacency, calls,
                   SOURCE_IDS, SOURCE_ID_COUNTER, parsed>>

\* one iteration of the loop: a character is pushed; `if value <= 0 { break }`
VlqPush ==
    /\ vlq.pc = "loop"
    /\ vlq' = [vlq EXCEPT !.buf = Append(@, BASE64_ALPHABET[VlqClamped(vlq.value) + 1]),
                          !.value = @ \div 32,
                          !.pc = IF vlq.value \div 32 <= 0 THEN "done" ELSE "loop"]
    /\ UNCHANGED <<entry, source, start_offset, source_id, recvOpen, lexer, pc,
                   parseResult, outcome, minify, rendered, round, firstRender,
                   received, style_sheet, source_map, adjacency, calls,
                   SOURCE_IDS, SOURCE_ID_COUNTER, parsed>>

NextVlq == VlqFold \/ VlqPush

SpecVlq == InitVlq /\ [][NextVlq]_vars

\* the Base64 digit of a character
Base64Digit(chr) == (CHOOSE i \in 1..64 : BASE64_ALPHABET[i] = chr) - 1

RECURSIVE VlqMagnitude(_)
\* the digits' low five bits, least significant first
VlqMagnitude(buf) ==
    IF buf = <<>> THEN 0
    ELSE (Base64Digit(Head(buf)) % 32) + 32 * VlqMagnitude(Tail(buf))

\* the standard Base64-VLQ decoding of one integer
VlqDecode(buf) ==
    LET folded == VlqMagnitude(buf)
    IN  IF folded % 2 = 1 THEN -(folded \div 2) ELSE folded \div 2

\* bit 5 is set on every character but the last
VlqContinuationBits(buf) ==
    /\ buf # <<>>
    /\ \A i \in 1..Len(buf) : (Base64Digit(buf[i]) >= 32) <=> (i < Len(buf))

\* C6: the encoder writes the standard Base64-VLQ encoding: the continuation
\* bit is set on every character but the last, decoding the output gives the
\* input back, and 0, 1, -1, 123 and 123456789 encode as A, C, D, 2H and qxmvrH.
C6_VlqStandard ==
    vlq.pc = "done"
        => /\ VlqContinuationBits(vlq.buf)
           /\ VlqDecode(vlq.buf) = vlq.input
           /\ vlq.input = 0 => vlq.buf = <<"A">>
           /\ vlq.input = 1 => vlq.buf = <<"C">>
           /\ vlq.input = -1 => vlq.buf = <<"D">>
           /\ vlq.input = 123 => vlq.buf = <<"2", "H">>
           /\ vlq.input = 123456789 => vlq.buf = <<"q", "x", "m", "v", "r", "H">>

\* a negative input whose encoding needs a continuation
C6_Witness == vlq.pc = "done" /\ vlq.input < 0 /\ Len(vlq.buf) >= 2

(***************************************************************************)
(* from_string with the lexer on a thread of its own, as it runs for long  *)
(* texts and in from_path.  The lexer pushes into a StreamedTokenChannel   *)
(* that holds at most ChannelCapacity tokens: a push waits while the       *)
(* channel is full and is refused once the reader is dropped.  The reader  *)
(* waits for a token until one arrives or the sender is dropped, which     *)
(* happens when the lexer thread ends.  The threshold on the length of the *)
(* text is left out: every text is lexed on the thread.                    *)
(***************************************************************************)
ChannelCapacity == 2
MaxStreamLen == 4

\* enum CSSToken
CSSTokenTypes ==
    {"Ident", "Comment", "HashPrefixedValue", "Number", "String", "OpenCurly",
     "CloseCurly", "OpenBracket", "CloseBracket", "Colon", "SemiColon", "Dot",
     "CloseAngle", "Comma", "Asterisk", "Percentage", "EOS"}

\* the tokens the reader has taken from the channel
Received == SubSeq(lexer.tokens, 1, received)

\* the lexer thread has ended and its sender is dropped
SenderDropped == lexer.result # "running"

\* from_reader asks for no token after toks: it does the same whatever follows
NeedsNoMoreTokens(node, toks) ==
    Cardinality({FromReader(node, following, 1) :
                    following \in {toks} \cup
                        {Append(toks, Token(t, <<>>, Span(0, 0, 0))) :
                            t \in CSSTokenTypes}}) = 1

\* the channel has room for what the step L1 pushes, or the reader is dropped
HasRoom(L1) ==
    ~recvOpen \/ Len(L1.tokens) - received <= ChannelCapacity

\* `parse_source_thread.join().unwrap().and(Ok(val))` inside and_then
This ==
    IF parseResult.res = "Ok" /\ lexer.result = "Err"
    THEN ErrR(lexer.err[1], parseResult.p)
    ELSE parseResult

\* the lexer thread takes one character
LexWorkerChar ==
    /\ pc \in {"from_reader", "join", "expect_eos", "returned"}
    /\ lexer.result = "running"
    /\ lexer.pos < Len(source)
    /\ HasRoom(LexStep(lexer, source, start_offset, source_id, TRUE))
    /\ lexer' = LexStep(lexer, source, start_offset, source_id, recvOpen)
    /\ UNCHANGED <<entry, source, start_offset, source_id, recvOpen, pc, parseResult,
                   outcome, minify, rendered, round, firstRender, vlq,
                   received, style_sheet, source_map, adjacency, calls,
                   SOURCE_IDS, SOURCE_ID_COUNTER, parsed>>

\* the lexer thread is past the loop: the last token, EOS, and the thread ends
LexWorkerEnd ==
    /\ pc \in {"from_reader", "join", "expect_eos", "returned"}
    /\ lexer.result = "running"
    /\ lexer.pos = Len(source)
    /\ HasRoom(LexFinish(lexer, source, source_id, TRUE))
    /\ lexer' = LexFinish(lexer, source, source_id, recvOpen)
    /\ UNCHANGED <<entry, source, start_offset, source_id, recvOpen, pc, parseResult,
                   outcome, minify, rendered, round, firstRender, vlq,
                   received, style_sheet, source_map, adjacency, calls,
                   SOURCE_IDS, SOURCE_ID_COUNTER, parsed>>

\* from_reader asks for the next token and the channel has one
Receive ==
    /\ pc = "from_reader"
    /\ received < Len(lexer.tokens)
    /\ ~NeedsNoMoreTokens(entry, Received)
    /\ received' = received + 1
    /\ UNCHANGED <<entry, source, start_offset, source_id, recvOpen, lexer, pc,
                   parseResult, outcome, minify, rendered, round, firstRender, vlq,
                   style_sheet, source_map, adjacency, calls,
                   SOURCE_IDS, SOURCE_ID_COUNTER, parsed>>

\* `Self::from_reader(&mut reader)` returns, or panics and the reader is dropped
StreamedFromReader ==
    /\ pc = "from_reader"
    /\ \/ NeedsNoMoreTokens(entry, Received)
       \/ SenderDropped /\ received = Len(lexer.tokens)
    /\ parseResult' = FromReader(entry, Received, 1)
    /\ CASE parseResult'.res = "Panic" ->
                pc' = "returned" /\ outcome' = parseResult' /\ recvOpen' = FALSE
         [] parseResult'.res = "Ok" ->
                pc' = "join" /\ UNCHANGED <<outcome, recvOpen>>
         [] OTHER ->
                pc' = "expect_eos" /\ UNCHANGED <<outcome, recvOpen>>
    /\ UNCHANGED <<entry, source, start_offset, source_id, lexer,
                   minify, rendered, round, firstRender, vlq,
                   received, style_sheet, source_map, adjacency, calls,
                   SOURCE_IDS, SOURCE_ID_COUNTER, parsed>>

\* `parse_source_thread.join().unwrap()`: waits for the lexer thread
Join ==
    /\ pc = "join"
    /\ SenderDropped
    /\ IF lexer.result = "Panic"
       THEN pc' = "returned" /\ outcome' = PanicR(parseResult.p) /\ recvOpen' = FALSE
       ELSE pc' = "expect_eos" /\ UNCHANGED <<outcome, recvOpen>>
    /\ UNCHANGED <<entry, source, start_offset, source_id, lexer, parseResult,
                   minify, rendered, round, firstRender, vlq,
                   received, style_sheet, source_map, adjacency, calls,
                   SOURCE_IDS, SOURCE_ID_COUNTER, parsed>>

\* `reader.expect_next(CSSToken::EOS)?; this`, then the reader is dropped
StreamedExpectEOS ==
    /\ pc = "expect_eos"
    /\ parseResult.p <= Len(lexer.tokens) \/ SenderDropped
    /\ outcome' = ExpectEOSThenThis(This, lexer.tokens)
    /\ received' = IF received < parseResult.p /\ parseResult.p <= Len(lexer.tokens)
                   THEN parseResult.p ELSE received
    /\ pc' = "returned"
    /\ recvOpen' = FALSE
    /\ UNCHANGED <<entry, source, start_offset, source_id, lexer, parseResult,
                   minify, rendered, round, firstRender, vlq,
                   style_sheet, source_map, adjacency, calls,
                   SOURCE_IDS, SOURCE_ID_COUNTER, parsed>>

StreamAlphabet == {"a", "{", "}", "\""}

InitStreamed ==
    /\ entry \in Entries
    /\ source \in Texts(StreamAlphabet, MaxStreamLen)
    /\ start_offset = 0
    /\ source_id = 0
    /\ recvOpen = TRUE
    /\ lexer = LexerInit
    /\ pc = "from_reader"
    /\ parseResult = NoResult
    /\ outcome = NoResult
    /\ minify = FALSE
    /\ rendered = <<>>
    /\ round = 1
    /\ firstRender = <<>>
    /\ vlq = VlqIdle
    /\ received = 0
    /\ style_sheet = <<>>
    /\ source_map = <<>>
    /\ adjacency = <<>>
    /\ calls = <<>>
    /\ SOURCE_IDS = [thread \in Threads |-> {}]
    /\ SOURCE_ID_COUNTER = 0
    /\ parsed = <<>>

LexWorker == LexWorkerChar \/ LexWorkerEnd

StreamedDriver == Receive \/ StreamedFromReader \/ Join \/ StreamedExpectEOS

NextStreamed == LexWorker \/ StreamedDriver

SpecStreamed == InitStreamed /\ [][NextStreamed]_vars

\* C11: failure joining.  When the lexer thread ended with a ParseError and
\* from_reader returned Ok on the tokens sent before it, from_string returns
\* the lexer's ParseError.
C11_LexerErrorIsReturned ==
    (pc = "returned" /\ parseResult.res = "Ok" /\ lexer.result = "Err")
        => outcome.res = "Err" /\ outcome.err = lexer.err

\* the step the lexer thread takes next, were no push refused
LexWorkerNext ==
    IF lexer.pos < Len(source)
    THEN LexStep(lexer, source, start_offset, source_id, TRUE)
    ELSE LexFinish(lexer, source, source_id, TRUE)

\* the lexer thread is about to push into a channel whose reader is dropped
PushRefused ==
    /\ ~recvOpen
    /\ lexer.result = "running"
    /\ Len(LexWorkerNext.tokens) > Len(lexer.tokens)

\* the lexer thread can take a step: it is neither ended nor waiting for room
LexWorkerCanStep == lexer.result = "running" /\ HasRoom(LexWorkerNext)

\* from_string can take a step: it has not returned and does not wait for a
\* token that is not there or for a lexer thread that still runs
DriverCanStep ==
    \/ /\ pc = "from_reader"
       /\ \/ received < Len(lexer.tokens)
          \/ SenderDropped
          \/ NeedsNoMoreTokens(entry, Received)
    \/ pc = "join" /\ SenderDropped
    \/ pc = "expect_eos" /\ (parseResult.p <= Len(lexer.tokens) \/ SenderDropped)

\* C12: no deadlock on error.  In every interleaving, until from_string has
\* returned and the lexer thread has ended one of the two can take a step, so
\* that under fair scheduling both end; neither waits for the other forever.
C12_NoDeadlock ==
    (pc = "returned" /\ lexer.result # "running") \/ LexWorkerCanStep \/ DriverCanStep

\* the lexer's half of C12: a lexer whose push is refused because the reader is
\* dropped stops there and returns Ok
RefusedPushIsOk ==
    [][PushRefused => (lexer'.result = "Ok" /\ lexer'.tokens = lexer.tokens)]_vars

(***************************************************************************)
(* raise_rules (lib.rs) on the StyleSheet that lib.rs's own Rule and        *)
(* StyleSheet parse: a Rule there has one selector, declarations whose      *)
(* values are identifiers, and nested rules.                                *)
(***************************************************************************)
\* reader.scan of lib.rs's Rule::from_reader: the first `:` or `{` decides
RECURSIVE LibScanIsRule(_, _)
LibScanIsRule(toks, p) ==
    IF p > Len(toks) THEN FALSE
    ELSE IF toks[p].type = "Colon" THEN FALSE
    ELSE IF toks[p].type = "OpenCurly" THEN TRUE
    ELSE LibScanIsRule(toks, p + 1)

\* `reader.expect_next(CSSToken::CloseCurly)?` and the Rule that is returned
LibRuleClose(toks, p, rule) ==
    LET last == ExpectNextTry(toks, p, "CloseCurly")
    IN  IF last.res # "Ok" THEN last
        ELSE OkR([rule EXCEPT !.position =
                     <<Span(rule.selector.position[1].start, last.val[1].end,
                            last.val[1].source_id)>>],
                 last.p)

RECURSIVE LibRuleFromReader(_, _)
RECURSIVE LibRuleBody(_, _, _)
\* the `while let Some(Token(token_type, _)) = reader.peek()` of the block
LibRuleBody(toks, p, rule) ==
    IF Peek(toks, p) = <<>> \/ toks[p].type = "CloseCurly"
    THEN LibRuleClose(toks, p, rule)
    ELSE IF LibScanIsRule(toks, p)
    THEN LET nested == LibRuleFromReader(toks, p)
         IN  IF nested.res # "Ok" THEN nested
             ELSE LibRuleBody(toks, nested.p,
                     [rule EXCEPT !.nested_rules =
                         <<Append(IF @ = <<>> THEN <<>> ELSE @[1], nested.val[1])>>])
    ELSE IF toks[p].type # "Ident" THEN PanicR(p + 1)
    ELSE LET colon == ExpectNextTry(toks, p + 1, "Colon")
             declared == [rule EXCEPT !.declarations =
                             Append(@, <<toks[p].value, toks[colon.p].value>>)]
         IN  IF colon.res # "Ok" THEN colon
             ELSE IF colon.p > Len(toks) \/ toks[colon.p].type # "Ident"
             THEN PanicR(colon.p + 1)
             ELSE IF colon.p + 1 > Len(toks) THEN PanicR(colon.p + 1)
             ELSE IF toks[colon.p + 1].type # "SemiColon"
             THEN LibRuleClose(toks, colon.p + 2, declared)
             ELSE LibRuleBody(toks, colon.p + 2, declared)

\* lib.rs: `impl ASTNode for Rule`, from_reader
LibRuleFromReader(toks, p) ==
    LET selector == SelectorFromReader(toks, p)
        open == ExpectNextTry(toks, selector.p, "OpenCurly")
    IN  IF selector.res # "Ok" THEN selector
        ELSE IF selector.val[1].position = <<>> THEN PanicR(selector.p)
        ELSE IF open.res # "Ok" THEN open
        ELSE LibRuleBody(toks, open.p,
                [selector |-> selector.val[1], nested_rules |-> <<>>,
                 declarations |-> <<>>, position |-> <<>>])

RECURSIVE LibStyleSheetRules(_, _, _)
\* lib.rs: `impl ASTNode for StyleSheet`, from_reader
LibStyleSheetRules(toks, p, rules) ==
    IF Peek(toks, p) = <<>> \/ toks[p].type = "EOS"
    THEN OkR([rules |-> rules], p)
    ELSE LET rule == LibRuleFromReader(toks, p)
         IN  IF rule.res # "Ok" THEN rule
             ELSE LibStyleSheetRules(toks, rule.p, Append(rules, rule.val[1]))

\* nest_selector without the walk to the tail: other is hung on the head
NestSelectorAtHead(self, other) == [self EXCEPT !.descendant = <<other>>]

RECURSIVE nest_selector(_, _)
\* Selector::nest_selector: a clone of self whose tail, found by following
\* descendant or else child, gets descendant = Some(other)
nest_selector(self, other) ==
    IF self.descendant # <<>>
    THEN [self EXCEPT !.descendant = <<nest_selector(self.descendant[1], other)>>]
    ELSE IF self.child # <<>>
    THEN [self EXCEPT !.child = <<nest_selector(self.child[1], other)>>]
    ELSE [self EXCEPT !.descendant = <<other>>]

RECURSIVE raise_subrules(_, _)
RECURSIVE RaiseNested(_, _, _)
\* the loop of raise_subrules, recursing into the nested rule before its
\* selector is nested under the enclosing one
RaiseNestedRecursingFirst(selector, nested_rules, raised_rules) ==
    IF nested_rules = <<>> THEN raised_rules
    ELSE LET below == raise_subrules(nested_rules[1], raised_rules)
             nested_rule == [below.rule EXCEPT
                                !.selector = nest_selector(selector, @)]
         IN  RaiseNested(selector, Tail(nested_rules),
                         Append(below.raised_rules, nested_rule))

\* the loop of raise_subrules without the call on the nested rule: what is
\* nested in a nested rule stays in it
RaiseNestedOneLevel(selector, nested_rules, raised_rules) ==
    IF nested_rules = <<>> THEN raised_rules
    ELSE LET nested_rule == [nested_rules[1] EXCEPT
                                !.selector = nest_selector(selector, @)]
         IN  RaiseNested(selector, Tail(nested_rules),
                         Append(raised_rules, nested_rule))

\* `for mut nested_rule in nested_rules.drain(..)`
RaiseNested(selector, nested_rules, raised_rules) ==
    IF nested_rules = <<>> THEN raised_rules
    ELSE LET nested_rule == [nested_rules[1] EXCEPT
                                !.selector = nest_selector(selector, @)]
             below == raise_subrules(nested_rule, raised_rules)
         IN  RaiseNested(selector, Tail(nested_rules),
                         Append(below.raised_rules, below.rule))

\* raise_subrules that copies the nested rules out and leaves them in place
RaiseSubrulesKeepingNested(rule, raised_rules) ==
    IF rule.nested_rules = <<>>
    THEN [rule |-> rule, raised_rules |-> raised_rules]
    ELSE [rule |-> rule,
          raised_rules |-> RaiseNested(rule.selector, rule.nested_rules[1],
                                       raised_rules)]

\* raise_subrules(rule, raised_rules): the rule as it is left and the vector
raise_subrules(rule, raised_rules) ==
    IF rule.nested_rules = <<>>
    THEN [rule |-> rule, raised_rules |-> raised_rules]
    ELSE [rule |-> [rule EXCEPT !.nested_rules = << <<>> >>],
          raised_rules |-> RaiseNested(rule.selector, rule.nested_rules[1],
                                       raised_rules)]

RECURSIVE RaiseEach(_, _, _)
\* `for rule in style_sheet.rules.iter_mut()`
RaiseEach(rules, done, raised_rules) ==
    IF rules = <<>> THEN [rules |-> done, raised_rules |-> raised_rules]
    ELSE LET r == raise_subrules(rules[1], raised_rules)
         IN  RaiseEach(Tail(rules), Append(done, r.rule), r.raised_rules)

RECURSIVE WithDeclarations(_)
\* the rules of a list that have a declaration
WithDeclarations(rules) ==
    IF rules = <<>> THEN <<>>
    ELSE (IF rules[1].declarations = <<>> THEN <<>> ELSE <<rules[1]>>)
           \o WithDeclarations(Tail(rules))

\* raise_rules that drops the rules left without a declaration
RaiseRulesDroppingEmpty(sheet) ==
    LET r == RaiseEach(sheet.rules, <<>>, <<>>)
    IN  [sheet EXCEPT !.rules = WithDeclarations(r.rules) \o r.raised_rules]

\* raise_rules(style_sheet)
raise_rules(sheet) ==
    LET r == RaiseEach(sheet.rules, <<>>, <<>>)
    IN  [sheet EXCEPT !.rules = r.rules \o r.raised_rules]

MaxNesting == 3

RaiseSelectors ==
    {<<"a">>, <<"d", " ", "e">>, <<"h", ">", "i">>, <<"d", " ", "e", ">", "i">>}

RaiseDeclarations == {<<>>, <<"b", ":", "c", ";">>}

RECURSIVE RuleTexts(_)
\* the texts of no rule or of one rule nested at most k deep
RuleTexts(k) ==
    IF k = 0 THEN {<<>>}
    ELSE {<<>>} \cup
         {s \o <<"{">> \o d \o n \o <<"}">> :
            s \in RaiseSelectors, d \in RaiseDeclarations, n \in RuleTexts(k - 1)}

\* one rule tree, two rules side by side inside a rule, two top-level rules
RaiseTexts ==
    RuleTexts(MaxNesting)
      \cup {<<"a", "{">> \o d \o m \o n \o <<"}">> :
               d \in RaiseDeclarations, m \in RuleTexts(1), n \in RuleTexts(1)}
      \cup {m \o n : m \in RuleTexts(1), n \in RuleTexts(2)}

InitRaise ==
    /\ entry = "raise_rules"
    /\ source \in RaiseTexts
    /\ start_offset = 0
    /\ vlq = VlqIdle
    /\ InitRest

\* StyleSheet::from_string of lib.rs, a string of at most 2048 bytes: the
\* lexer has returned Ok; from_reader, then `expect_next(CSSToken::EOS)?`
LibFromString ==
    /\ pc = "lex"
    /\ entry = "raise_rules"
    /\ lexer.result = "Ok"
    /\ parseResult' = LibStyleSheetRules(lexer.tokens, 1, <<>>)
    /\ outcome' = IF parseResult'.res = "Panic" THEN parseResult'
                  ELSE ExpectEOSThenThis(parseResult', lexer.tokens)
    /\ style_sheet' = IF outcome'.res = "Ok" THEN <<outcome'.val[1]>> ELSE <<>>
    /\ pc' = "done"
    /\ UNCHANGED <<entry, source, start_offset, source_id, recvOpen, lexer,
                   minify, rendered, round, firstRender, vlq,
                   received, source_map, adjacency, calls,
                   SOURCE_IDS, SOURCE_ID_COUNTER, parsed>>

\* bin.rs: `Ok(mut stylesheet) => { raise_nested_rules(&mut stylesheet); ..`;
\* raise_rules is public and takes the style sheet by `&mut`, so that it can
\* be called on a style sheet it has been called on
RaiseRules ==
    /\ pc \in {"done", "raised"}
    /\ entry = "raise_rules"
    /\ outcome.res = "Ok"
    /\ style_sheet' = <<raise_rules(style_sheet[1])>>
    /\ pc' = IF pc = "done" THEN "raised" ELSE "raised_twice"
    /\ UNCHANGED <<entry, source, start_offset, source_id, recvOpen, lexer,
                   parseResult, outcome, minify, rendered, round, firstRender,
                   vlq, received, source_map, adjacency, calls,
                   SOURCE_IDS, SOURCE_ID_COUNTER, parsed>>

NextRaise ==
    \/ LexChar
    \/ LexEnd
    \/ LibFromString
    \/ RaiseRules

SpecRaise == InitRaise /\ [][NextRaise]_vars

(***************************************************************************)
(* Claims about selectors and raise_rules.                                 *)
(***************************************************************************)
RECURSIVE AllRules(_)
\* the rules of a list and, after each of them, the rules nested in it
AllRules(rules) ==
    IF rules = <<>> THEN <<>>
    ELSE <<rules[1]>>
           \o AllRules(IF rules[1].nested_rules = <<>> THEN <<>>
                       ELSE rules[1].nested_rules[1])
           \o AllRules(Tail(rules))

RECURSIVE ChainOk(_)
\* a selector and every selector below it has at most one of the two links
ChainOk(sel) ==
    /\ sel.descendant = <<>> \/ sel.child = <<>>
    /\ sel.descendant # <<>> => ChainOk(sel.descendant[1])
    /\ sel.child # <<>> => ChainOk(sel.child[1])

\* the style sheet before raise_rules and the one it has become
Parsed == outcome.val[1]
Raised == style_sheet[1]

\* C13: every selector that from_reader returns for a rule, at any depth,
\* and every selector that nest_selector builds in raise_rules, has at most
\* one of descendant and child set, and so has every selector below it.
C13_SelectorChain ==
    (pc \in {"done", "raised"} /\ outcome.res = "Ok")
        => \A i \in 1..Len(AllRules(Raised.rules)) :
              ChainOk(AllRules(Raised.rules)[i].selector)

C13_Witness ==
    /\ pc = "raised"
    /\ \E i \in 1..Len(Raised.rules) :
          LET sel == Raised.rules[i].selector
          IN  /\ sel.child # <<>>
              /\ sel.child[1].descendant # <<>>
              /\ sel.child[1].descendant[1].descendant # <<>>

\* a selector without its links
Compound(sel) == [sel EXCEPT !.descendant = <<>>, !.child = <<>>]

RECURSIVE Chain(_)
\* the selectors of a chain in order, each with the link that leaves it
Chain(sel) ==
    IF sel.descendant # <<>>
    THEN <<[part |-> Compound(sel), link |-> "descendant"]>>
             \o Chain(sel.descendant[1])
    ELSE IF sel.child # <<>>
    THEN <<[part |-> Compound(sel), link |-> "child"]>> \o Chain(sel.child[1])
    ELSE <<[part |-> Compound(sel), link |-> "none"]>>

\* chain c hung as descendant on the last selector of chain prefix
JoinChains(prefix, c) ==
    IF prefix = <<>> THEN c
    ELSE [prefix EXCEPT ![Len(prefix)].link = "descendant"] \o c

RECURSIVE Flattened(_, _)
\* for every rule at every depth, where it was parsed and the chain of its
\* enclosing selectors, outermost first, followed by its own
Flattened(rules, prefix) ==
    IF rules = <<>> THEN <<>>
    ELSE LET own == JoinChains(prefix, Chain(rules[1].selector))
         IN  <<[position |-> rules[1].position, chain |-> own,
                declarations |-> rules[1].declarations]>>
               \o Flattened(IF rules[1].nested_rules = <<>> THEN <<>>
                            ELSE rules[1].nested_rules[1], own)
               \o Flattened(Tail(rules), prefix)

\* C15: nest_selector keeps the outer chain with its links and hangs the
\* nested selector as descendant on its last selector; after raise_rules
\* the selector of a rule that was nested k deep is the chain of its k
\* enclosing selectors, outermost first, followed by its own, and the
\* selector of a rule that others were nested in is as it was.
C15_SelectorComposition ==
    (pc = "raised")
        => \A i \in 1..Len(Flattened(Parsed.rules, <<>>)) :
              LET e == Flattened(Parsed.rules, <<>>)[i]
              IN  \E j \in 1..Len(Raised.rules) :
                     /\ Raised.rules[j].position = e.position
                     /\ Chain(Raised.rules[j].selector) = e.chain

C15_Witness ==
    /\ pc = "raised"
    /\ \E j \in 1..Len(Raised.rules) :
          LET c == Chain(Raised.rules[j].selector)
          IN  /\ Len(c) = 6
              /\ c[1].link = "child"
              /\ c[2].link = "descendant"
              /\ c[4].link = "child"
              /\ c[5].link = "descendant"

\* C16: after raise_rules every rule that was top-level is at the index it
\* had, with the selector it had, whether or not it has declarations, and
\* every rule behind them is a rule that was nested.
C16_OriginalRulesStay ==
    (pc = "raised")
        => /\ Len(Raised.rules) >= Len(Parsed.rules)
           /\ \A i \in 1..Len(Parsed.rules) :
                 /\ Raised.rules[i].selector = Parsed.rules[i].selector
                 /\ Raised.rules[i].position = Parsed.rules[i].position
           /\ \A j \in (Len(Parsed.rules) + 1)..Len(Raised.rules) :
                 \A i \in 1..Len(Parsed.rules) :
                    Raised.rules[j].position # Parsed.rules[i].position

C16_Witness ==
    /\ pc = "raised"
    /\ Len(Parsed.rules) = 2
    /\ Parsed.rules[1].declarations = <<>>
    /\ Parsed.rules[2].declarations = <<>>
    /\ Parsed.rules[2].nested_rules # <<>>
    /\ Len(Raised.rules) = 3

\* C17: after raise_rules every rule that was in the style sheet at any
\* depth is in the top-level list exactly once and nowhere else, the list is
\* as long as there were rules at all depths, and every rule has the
\* declarations it had.
C17_NothingLostOrDuplicated ==
    (pc = "raised")
        => /\ Len(Raised.rules) = Len(AllRules(Parsed.rules))
           /\ Len(AllRules(Raised.rules)) = Len(Raised.rules)
           /\ \A i \in 1..Len(AllRules(Parsed.rules)) :
                 LET rule == AllRules(Parsed.rules)[i]
                 IN  /\ Cardinality({j \in 1..Len(Raised.rules) :
                           Raised.rules[j].position = rule.position}) = 1
                     /\ \A j \in 1..Len(Raised.rules) :
                           Raised.rules[j].position = rule.position
                              => Raised.rules[j].declarations = rule.declarations

C17_Witness ==
    /\ pc = "raised"
    /\ \E i \in 1..Len(Parsed.rules) :
          /\ Parsed.rules[i].declarations # <<>>
          /\ Parsed.rules[i].nested_rules # <<>>
          /\ Len(Parsed.rules[i].nested_rules[1]) = 2
          /\ Parsed.rules[i].nested_rules[1][1].declarations # <<>>
          /\ Raised.rules[i].declarations = Parsed.rules[i].declarations
    /\ Len(Raised.rules) = 3

(***************************************************************************)
(* Span of lib.rs: (line_start, column_start, line_end, column_end,        *)
(* source_id), and its is_adjacent.                                        *)
(***************************************************************************)
MaxLine == 1
MaxColumn == 2
MaxSourceId == 1

\* Span::is_adjacent(&self, other)
is_adjacent(self, other) == self[3] = other[1] /\ self[4] = other[2]

\* the spans that do not end before they start
LibSpans ==
    {sp \in (0..MaxLine) \X (0..MaxColumn) \X (0..MaxLine) \X (0..MaxColumn)
              \X (0..MaxSourceId) :
        sp[1] < sp[3] \/ (sp[1] = sp[3] /\ sp[2] <= sp[4])}

InitSpan ==
    /\ entry = "is_adjacent"
    /\ source = <<>>
    /\ start_offset = 0
    /\ vlq = VlqIdle
    /\ source_id = 0
    /\ recvOpen = TRUE
    /\ lexer = LexerInit
    /\ pc = "call"
    /\ parseResult = NoResult
    /\ outcome = NoResult
    /\ minify = FALSE
    /\ rendered = <<>>
    /\ round = 1
    /\ firstRender = <<>>
    /\ received = 0
    /\ style_sheet = <<>>
    /\ source_map = <<>>
    /\ calls = <<>>
    /\ SOURCE_IDS = [thread \in Threads |-> {}]
    /\ SOURCE_ID_COUNTER = 0
    /\ parsed = <<>>
    /\ \E self \in LibSpans, other \in LibSpans :
          adjacency = <<[self |-> self, other |-> other]>>

\* `self.is_adjacent(&other)` returns
IsAdjacent ==
    /\ pc = "call"
    /\ entry = "is_adjacent"
    /\ outcome' = OkR(is_adjacent(adjacency[1].self, adjacency[1].other), 0)
    /\ pc' = "returned"
    /\ UNCHANGED <<entry, source, start_offset, source_id, recvOpen, lexer,
                   parseResult, minify, rendered, round, firstRender, vlq,
                   received, style_sheet, source_map, adjacency, calls,
                   SOURCE_IDS, SOURCE_ID_COUNTER, parsed>>

NextSpan == IsAdjacent

SpecSpan == InitSpan /\ [][NextSpan]_vars

\* C14: two spans are reported adjacent exactly when the end of one is the
\* start of the other and both have the same source id.
C14_AdjacentIffTouchingSameSource ==
    (entry = "is_adjacent" /\ pc = "returned")
        => (outcome.val[1] <=>
               LET self == adjacency[1].self
                   other == adjacency[1].other
               IN  /\ self[5] = other[5]
                   /\ \/ self[3] = other[1] /\ self[4] = other[2]
                      \/ other[3] = self[1] /\ other[4] = self[2])

(***************************************************************************)
(* SourceMap (source_map.rs): new, add_mapping, add_new_line and           *)
(* add_to_column, called in any order.                                     *)
(***************************************************************************)
MaxCalls == 4

\* `column: u8`
U8 == 256

RECURSIVE VlqLoop(_, _)
\* the loop of vlq_encode_integer_to_buffer, value already folded
VlqLoop(buf, value) ==
    LET pushed == Append(buf, BASE64_ALPHABET[VlqClamped(value) + 1])
    IN  IF value \div 32 <= 0 THEN pushed ELSE VlqLoop(pushed, value \div 32)

vlq_encode_integer_to_buffer(buf, value) == VlqLoop(buf, VlqFoldSign(value))

\* SourceMap::new()
SourceMapNew ==
    [buf |-> <<>>, line |-> 0, last_line |-> <<>>, column |-> 0,
     last_column |-> 0, last_source_line |-> 0, last_source_column |-> 0,
     sources |-> <<>>, sources_map |-> <<>>]

\* sources_map.get(&source_id): the pairs (source id, index) are kept in the
\* order they were inserted
SourcesMapGet(sources_map, id) ==
    IF \E i \in 1..Len(sources_map) : sources_map[i][1] = id
    THEN <<sources_map[CHOOSE i \in 1..Len(sources_map) :
                          sources_map[i][1] = id][2]>>
    ELSE <<>>

\* a separator before every mapping but the first of the map
NeedsCommaAfterAnyMapping(sm) == sm.last_line # <<>>

\* a segment separator is due
NeedsComma(sm) == sm.last_line = <<sm.line>>

\* the index written for the source: the one in sources_map, or that of the
\* source pushed just now
SourceIndex(sm, id) ==
    IF SourcesMapGet(sm.sources_map, id) # <<>>
    THEN SourcesMapGet(sm.sources_map, id)[1]
    ELSE Len(sm.sources)

\* SourceMap::add_mapping(original_line, original_column, source_id)
add_mapping(sm, original_line, original_column, id) ==
    LET separated == IF NeedsComma(sm) THEN Append(sm.buf, ",") ELSE sm.buf
        column_offset == sm.column - sm.last_column
        known == SourcesMapGet(sm.sources_map, id) # <<>>
        idx == SourceIndex(sm, id)
        b1 == vlq_encode_integer_to_buffer(separated, column_offset)
        b2 == vlq_encode_integer_to_buffer(b1, idx)
        b3 == vlq_encode_integer_to_buffer(b2,
                  original_line - 1 - sm.last_source_line)
        b4 == vlq_encode_integer_to_buffer(b3,
                  original_column - sm.last_source_column)
    IN  [sm EXCEPT !.buf = b4,
                   !.last_line = <<sm.line>>,
                   !.sources = IF known THEN @ ELSE Append(@, id),
                   !.sources_map = IF known THEN @ ELSE Append(@, <<id, idx>>),
                   !.last_source_line = original_line - 1,
                   !.last_source_column = original_column,
                   !.last_column = sm.column]

\* SourceMap::add_new_line()
add_new_line(sm) ==
    [sm EXCEPT !.line = @ + 1, !.buf = Append(@, ";"), !.column = 0,
               !.last_column = 0]

\* the arguments of the calls
OriginalPositions == {<<1, 1>>, <<1, 4>>, <<3, 2>>}
SourceIds == {5, 7}
Lengths == {2, 255}

InitMap ==
    /\ entry = "SourceMap"
    /\ source = <<>>
    /\ start_offset = 0
    /\ vlq = VlqIdle
    /\ source_id = 0
    /\ recvOpen = TRUE
    /\ lexer = LexerInit
    /\ pc = "map"
    /\ parseResult = NoResult
    /\ outcome = NoResult
    /\ minify = FALSE
    /\ rendered = <<>>
    /\ round = 1
    /\ firstRender = <<>>
    /\ received = 0
    /\ style_sheet = <<>>
    /\ adjacency = <<>>
    /\ source_map = SourceMapNew
    /\ calls = <<>>
    /\ SOURCE_IDS = [thread \in Threads |-> {}]
    /\ SOURCE_ID_COUNTER = 0
    /\ parsed = <<>>

AddMapping ==
    /\ pc = "map"
    /\ Len(calls) < MaxCalls
    /\ \E at \in OriginalPositions, id \in SourceIds :
          /\ source_map' = add_mapping(source_map, at[1], at[2], id)
          /\ calls' = Append(calls, [op |-> "add_mapping", original_line |-> at[1],
                                     original_column |-> at[2], source_id |-> id])
    /\ UNCHANGED <<entry, source, start_offset, source_id, recvOpen, lexer, pc,
                   parseResult, outcome, minify, rendered, round, firstRender,
                   vlq, received, style_sheet, adjacency,
                   SOURCE_IDS, SOURCE_ID_COUNTER, parsed>>

AddNewLine ==
    /\ pc = "map"
    /\ Len(calls) < MaxCalls
    /\ source_map' = add_new_line(source_map)
    /\ calls' = Append(calls, [op |-> "add_new_line"])
    /\ UNCHANGED <<entry, source, start_offset, source_id, recvOpen, lexer, pc,
                   parseResult, outcome, minify, rendered, round, firstRender,
                   vlq, received, style_sheet, adjacency,
                   SOURCE_IDS, SOURCE_ID_COUNTER, parsed>>

\* SourceMap::add_to_column(length): `self.column += length as u8`; a sum
\* that does not fit the u8 panics where overflow is checked and wraps
\* where it is not
AddToColumn ==
    /\ pc = "map"
    /\ Len(calls) < MaxCalls
    /\ \E length \in Lengths :
          /\ calls' = Append(calls, [op |-> "add_to_column", length |-> length])
          /\ IF source_map.column + (length % U8) < U8
             THEN /\ source_map' = [source_map EXCEPT !.column = @ + (length % U8)]
                  /\ pc' = pc
             ELSE \/ /\ source_map' = source_map
                     /\ pc' = "panicked"
                  \/ /\ source_map' = [source_map EXCEPT
                                          !.column = (@ + (length % U8)) % U8]
                     /\ pc' = pc
    /\ UNCHANGED <<entry, source, start_offset, source_id, recvOpen, lexer,
                   parseResult, outcome, minify, rendered, round, firstRender,
                   vlq, received, style_sheet, adjacency,
                   SOURCE_IDS, SOURCE_ID_COUNTER, parsed>>

NextMap == AddMapping \/ AddNewLine \/ AddToColumn

SpecMap == InitMap /\ [][NextMap]_vars

(***************************************************************************)
(* Claims about the mappings of a SourceMap.                               *)
(***************************************************************************)
RECURSIVE SplitOn(_, _)
\* the pieces of a text between the separators, empty pieces kept
SplitOn(text, sep) ==
    IF \A i \in 1..Len(text) : text[i] # sep THEN <<text>>
    ELSE LET at == CHOOSE i \in 1..Len(text) :
                      text[i] = sep /\ \A j \in 1..(i - 1) : text[j] # sep
         IN  <<SubSeq(text, 1, at - 1)>>
               \o SplitOn(SubSeq(text, at + 1, Len(text)), sep)

RECURSIVE DecodeSegment(_)
\* the numbers of a segment: each ends at its first character without the
\* continuation bit; what is left without such a character decodes to none
DecodeSegment(seg) ==
    IF \A i \in 1..Len(seg) : Base64Digit(seg[i]) >= 32 THEN <<>>
    ELSE LET last == CHOOSE i \in 1..Len(seg) :
                        /\ Base64Digit(seg[i]) < 32
                        /\ \A j \in 1..(i - 1) : Base64Digit(seg[j]) >= 32
         IN  <<VlqDecode(SubSeq(seg, 1, last))>>
               \o DecodeSegment(SubSeq(seg, last + 1, Len(seg)))

\* the generated lines of the mappings, each the list of its segments
MappingLines(buf) ==
    LET lines == SplitOn(buf, ";")
    IN  [k \in 1..Len(lines) |->
            IF lines[k] = <<>> THEN <<>> ELSE SplitOn(lines[k], ",")]

RECURSIVE RunningSums(_, _, _, _, _, _)
\* the positions the segments decode to: the generated column summed from 0
\* on every line, the other three fields summed over the whole map
RunningSums(lines, k, column, src, line, original_column) ==
    IF lines = <<>> THEN <<>>
    ELSE IF k > Len(lines[1])
    THEN RunningSums(Tail(lines), 1, 0, src, line, original_column)
    ELSE LET d == DecodeSegment(lines[1][k])
             at == [column |-> column + d[1], source |-> src + d[2],
                    line |-> line + d[3], original_column |-> original_column + d[4]]
         IN  <<at>> \o RunningSums(lines, k + 1, at.column, at.source, at.line,
                                    at.original_column)

Decoded == RunningSums(MappingLines(source_map.buf), 1, 0, 0, 0, 0)

RECURSIVE Called(_, _, _)
\* for every add_mapping call, in order: the generated line and column at
\* the time of the call and the arguments of the call
Called(log, line, column) ==
    IF log = <<>> THEN <<>>
    ELSE IF log[1].op = "add_new_line" THEN Called(Tail(log), line + 1, 0)
    ELSE IF log[1].op = "add_to_column"
    THEN Called(Tail(log), line, column + log[1].length)
    ELSE <<[generated_line |-> line, column |-> column,
            original_line |-> log[1].original_line,
            original_column |-> log[1].original_column,
            source_id |-> log[1].source_id]>>
           \o Called(Tail(log), line, column)

Mappings == Called(calls, 0, 0)

\* how many calls of an operation were made
CallsOf(op) == Cardinality({i \in 1..Len(calls) : calls[i].op = op})

SingleSource ==
    \A i, j \in 1..Len(Mappings) : Mappings[i].source_id = Mappings[j].source_id

\* C19: with one source, the running sums of the segments give back, for
\* every add_mapping call, the generated column at the time of the call and
\* the original line and original column of the call, each less one.
C19_DeltasRoundTrip ==
    (entry = "SourceMap" /\ pc = "map" /\ SingleSource)
        => /\ Len(Decoded) = Len(Mappings)
           /\ \A i \in 1..Len(Mappings) :
                 /\ Decoded[i].column = Mappings[i].column
                 /\ Decoded[i].line = Mappings[i].original_line - 1
                 /\ Decoded[i].original_column = Mappings[i].original_column - 1

\* C20: the running sum of the source field of the segments gives, for
\* every add_mapping call, the index in `sources` of the source of the call.
C20_SourceIndexIsDelta ==
    (entry = "SourceMap" /\ pc = "map")
        => /\ Len(Decoded) = Len(Mappings)
           /\ \A i \in 1..Len(Mappings) :
                 /\ Decoded[i].source \in 0..(Len(source_map.sources) - 1)
                 /\ source_map.sources[Decoded[i].source + 1] = Mappings[i].source_id

(***************************************************************************)
(* Claims about the reader, the lexer's spans and the grammar.             *)
(***************************************************************************)
\* C21: from_reader never takes the EOS token, so that nothing is asked of
\* the reader after EOS was returned: when from_reader is over, the reader
\* stands at or before EOS, the last token.
C21_NeverReadsPastEOS ==
    (entry \in Entries /\ pc \in {"expect_eos", "done"} /\ lexer.result = "Ok"
        /\ parseResult # NoResult)
        => parseResult.p <= Len(lexer.tokens)

RECURSIVE WithoutComments(_)
\* the tokens that are not Comment tokens
WithoutComments(toks) ==
    IF toks = <<>> THEN <<>>
    ELSE (IF toks[1].type = "Comment" THEN <<>> ELSE <<toks[1]>>)
           \o WithoutComments(Tail(toks))

\* the tokens are those of rules that parse, with Comment tokens before,
\* between or after the rules
CommentsAmongRules ==
    /\ entry = "StyleSheet"
    /\ lexer.result = "Ok"
    /\ \E i \in 1..Len(lexer.tokens) : lexer.tokens[i].type = "Comment"
    /\ \A i \in 1..Len(lexer.tokens) :
          lexer.tokens[i].type = "Comment"
             => Cardinality({j \in 1..(i - 1) : lexer.tokens[j].type = "OpenCurly"})
                  = Cardinality({j \in 1..(i - 1) : lexer.tokens[j].type = "CloseCurly"})
    /\ LET rules == WithoutComments(lexer.tokens)
       IN  ExpectEOSThenThis(StyleSheetFromReader(rules, 1), rules).res = "Ok"

\* C22: a style sheet whose rules parse and that has comments at its top
\* level, before, between or after the rules, parses.
C22_TopLevelCommentAccepted ==
    (pc = "done" /\ CommentsAmongRules) => outcome.res = "Ok"

\* the bytes a token was lexed from: its text and the characters around it
LexedWidth(token) ==
    CASE token.type \in {"Ident", "Number"} -> ByteLen(token.value)
      [] token.type = "HashPrefixedValue" -> ByteLen(token.value) + 1
      [] token.type = "String" -> ByteLen(token.value) + 2
      [] token.type = "Comment" -> ByteLen(token.value) + 4
      [] token.type = "EOS" -> 0
      [] OTHER -> 1

\* C23: with no offset, the span of every pushed token is as wide as the
\* characters it was lexed from (a punctuation token 1 byte, a String its
\* text and both quotes, a Comment its text, `/*` and `*/`), and each token
\* starts at or after the end of the one before.
C23_SpansCoverLexedCharacters ==
    (entry = "lex_source" /\ start_offset = 0)
        => /\ \A i \in 1..Len(lexer.tokens) :
                 lexer.tokens[i].span.end - lexer.tokens[i].span.start
                    = LexedWidth(lexer.tokens[i])
           /\ \A i \in 1..(Len(lexer.tokens) - 1) :
                 lexer.tokens[i].span.end <= lexer.tokens[i + 1].span.start

RECURSIVE LexRun(_, _, _)
\* lex_source from the state L to its return, nothing refusing the tokens
LexRun(L, text, offset) ==
    IF L.result # "running" THEN L
    ELSE IF L.pos < Len(text)
    THEN LexRun(LexStep(L, text, offset, 0, TRUE), text, offset)
    ELSE LexFinish(L, text, 0, TRUE)

\* C24: when lex_source has returned, every token it pushed has the span it
\* has when the same text is lexed with offset 0, start and end both
\* increased by the offset, and no span starts after it ends.
C24_OffsetShiftsSpans ==
    (entry = "lex_source" /\ lexer.result # "running")
        => LET plain == LexRun(LexerInit, source, 0).tokens
           IN  /\ Len(lexer.tokens) = Len(plain)
               /\ \A i \in 1..Len(lexer.tokens) :
                     /\ lexer.tokens[i].span.start = plain[i].span.start + start_offset
                     /\ lexer.tokens[i].span.end = plain[i].span.end + start_offset
                     /\ lexer.tokens[i].span.start <= lexer.tokens[i].span.end

RECURSIVE Escaped(_, _)
\* in a text that opens a string with its first character: character i is
\* the one escaped by the backslash before it, that backslash not being
\* escaped itself
Escaped(text, i) == i > 2 /\ text[i - 1] = "\\" /\ ~Escaped(text, i - 1)

\* the quotes that are not escaped, after the opening one
ClosingQuotes(text) == {i \in 2..Len(text) : text[i] = "\"" /\ ~Escaped(text, i)}

FirstClosingQuote(text) ==
    CHOOSE i \in ClosingQuotes(text) : \A j \in ClosingQuotes(text) : i <= j

\* C25: in a text that opens a string, a backslash escapes the one character
\* after it, another backslash included, and the string is closed by the
\* first quote that is not escaped: the String token holds the characters
\* up to that quote, and with no such quote the lexer returns an error.
C25_StringEscapes ==
    (entry = "lex_source" /\ LexedWholeInput /\ source # <<>> /\ source[1] = "\"")
        => IF ClosingQuotes(source) = {}
           THEN lexer.result = "Err" /\ lexer.tokens = <<>>
           ELSE /\ lexer.tokens # <<>>
                /\ lexer.tokens[1].type = "String"
                /\ lexer.tokens[1].value
                      = SubSeq(source, 2, FirstClosingQuote(source) - 1)

\* in a text that starts with `/*`: the `/` that come right after a `*`
\* that is not the `*` of the opening
CommentEnds(text) == {i \in 4..Len(text) : text[i] = "/" /\ text[i - 1] = "*"}

FirstCommentEnd(text) ==
    CHOOSE i \in CommentEnds(text) : \A j \in CommentEnds(text) : i <= j

\* C26: on a text that starts with `/`, lex_source does not panic; unless
\* the text starts with `/*` it returns an error and pushes nothing; if it
\* does, the comment ends at the first `/` right after a `*` behind the
\* opening, the Comment token holds the characters between `/*` and `*/`,
\* and with no such end the lexer returns an error.
C26_CommentLexing ==
    (entry = "lex_source" /\ lexer.result # "running" /\ source # <<>>
        /\ source[1] = "/")
        => /\ lexer.result # "Panic"
           /\ IF Len(source) < 2 \/ source[2] # "*"
              THEN lexer.result = "Err" /\ lexer.tokens = <<>>
              ELSE IF CommentEnds(source) = {}
              THEN lexer.result = "Err" /\ lexer.tokens = <<>>
              ELSE /\ lexer.tokens # <<>>
                   /\ lexer.tokens[1].type = "Comment"
                   /\ lexer.tokens[1].value
                         = SubSeq(source, 3, FirstCommentEnd(source) - 2)

\* the rules from_string returned, for a Rule and for a StyleSheet
ReturnedRules ==
    IF entry = "Rule" THEN <<outcome.val[1]>> ELSE outcome.val[1].rules

\* the token that starts at a byte
TokenStartingAt(toks, start) ==
    CHOOSE i \in 1..Len(toks) : toks[i].span.start = start

\* the token behind the `{` that opens the block of a rule
BlockStart(toks, rule) ==
    LET first == TokenStartingAt(toks, rule.position[1].start)
    IN  1 + CHOOSE i \in first..Len(toks) :
                /\ toks[i].type = "OpenCurly"
                /\ \A j \in first..(i - 1) : toks[j].type # "OpenCurly"

\* from token p on, a `{` comes before every `:` and `}`
BraceComesFirst(toks, p) ==
    \E i \in p..Len(toks) :
        /\ toks[i].type = "OpenCurly"
        /\ \A j \in p..(i - 1) : toks[j].type \notin {"Colon", "CloseCurly"}

\* the first item of the block of a rule is what the tokens say it is, and
\* it starts at the first token of the block
FirstItemAsScanned(toks, rule) ==
    LET q == BlockStart(toks, rule)
    IN  toks[q].type # "CloseCurly"
           => IF BraceComesFirst(toks, q)
              THEN /\ rule.nested_rules # <<>>
                   /\ rule.nested_rules[1][1].position[1].start = toks[q].span.start
              ELSE /\ rule.declarations # <<>>
                   /\ rule.declarations[1][1] = toks[q].value
                   /\ rule.nested_rules # <<>>
                         => rule.nested_rules[1][1].position[1].start
                               > toks[q].span.start

\* C27: in every rule that is returned, at any depth, the first item of the
\* block is a nested rule when a `{` comes before every `:` and `}` from the
\* first token of the block on, and a declaration otherwise, and the item
\* starts at that token; the rule texts with nested rules parse.
C27_NestedRuleOrDeclaration ==
    (pc = "done" /\ entry \in {"Rule", "StyleSheet"})
        => /\ source \in NestingTexts => outcome.res = "Ok"
           /\ outcome.res = "Ok"
                 => \A i \in 1..Len(AllRules(ReturnedRules)) :
                       FirstItemAsScanned(lexer.tokens, AllRules(ReturnedRules)[i])

C27_Witness ==
    /\ pc = "done"
    /\ entry = "Rule"
    /\ outcome.res = "Ok"
    /\ outcome.val[1].declarations # <<>>
    /\ outcome.val[1].nested_rules # <<>>
    /\ outcome.val[1].nested_rules[1][1].nested_rules # <<>>

\* the compound selector that a simple selector text and a class or id
\* right after it stand for, position apart
IsCompound(sel, A, B) ==
    /\ IsLeaf(sel)
    /\ sel.tag_name = (IF A[1] \in {".", "#"} THEN <<>> ELSE <<A>>)
    /\ sel.identifier = (IF A[1] = "#" THEN <<Tail(A)>>
                         ELSE IF B[1] = "#" THEN <<Tail(B)>> ELSE <<>>)
    /\ sel.class_names =
          (LET classes == (IF A[1] = "." THEN <<Tail(A)>> ELSE <<>>)
                            \o (IF B[1] = "." THEN <<Tail(B)>> ELSE <<>>)
           IN  IF classes = <<>> THEN <<>> ELSE <<classes>>)

\* C28: a class or id written right after a tag name, `*`, a class or an id
\* is added to the same selector; written after white space it starts the
\* descendant of that selector.
C28_CompoundVersusDescendant ==
    (Returned /\ entry = "Selector")
        => \A A \in SimpleSelectors, B \in Suffixes :
              /\ (source = A \o B /\ source \in CompoundTexts)
                    => outcome.res = "Ok" /\ IsCompound(outcome.val[1], A, B)
              /\ \A g \in Gaps :
                    source = A \o g \o B
                        => /\ outcome.res = "Ok"
                           /\ IsSimple(outcome.val[1], A)
                           /\ Len(outcome.val[1].descendant) = 1
                           /\ IsSimple(outcome.val[1].descendant[1], B)

\* where the rule parsed at a position is in the list raise_rules left
RaisedIndex(position) ==
    CHOOSE j \in 1..Len(Raised.rules) : Raised.rules[j].position = position

\* the positions of the rules that were parsed inside another rule
NestedPositions ==
    {AllRules(Parsed.rules)[i].position[1] : i \in 1..Len(AllRules(Parsed.rules))}
        \ {Parsed.rules[i].position[1] : i \in 1..Len(Parsed.rules)}

\* the rule at y was parsed inside the rule at x
Inside(y, x) == x.start < y.start /\ y.end <= x.end

\* C29: among the rules that raise_rules has raised, a rule comes before
\* every rule that was nested inside it, and of two rules neither of which
\* was inside the other the one that was first in the source comes first.
C29_OuterBeforeInner ==
    (entry = "raise_rules" /\ pc = "raised")
        => \A x \in NestedPositions, y \in NestedPositions :
              /\ Inside(y, x) => RaisedIndex(<<x>>) < RaisedIndex(<<y>>)
              /\ (x.start < y.start /\ ~Inside(y, x))
                    => RaisedIndex(<<x>>) < RaisedIndex(<<y>>)

\* no rule of the list, nor one nested in them, has a nested rule
Flat(rules) ==
    \A i \in 1..Len(AllRules(rules)) :
        AllRules(rules)[i].nested_rules \in {<<>>, << <<>> >>}

\* C31: raise_rules flattens completely and is idempotent: the style sheet
\* it leaves has no rule, at any depth, that holds a nested rule, and a
\* second raise_rules leaves that style sheet as it is.
C31_FlattensAndIdempotent ==
    [][/\ pc' = "raised" => Flat(style_sheet'[1].rules)
       /\ (pc = "raised" /\ pc' = "raised_twice") => style_sheet' = style_sheet]_vars

\* raise_rules has run twice on a style sheet that had a rule nested in a
\* nested rule
C31_Witness ==
    /\ entry = "raise_rules"
    /\ pc = "raised_twice"
    /\ \E i \in 1..Len(Parsed.rules) :
          /\ Parsed.rules[i].nested_rules \notin {<<>>, << <<>> >>}
          /\ \E j \in 1..Len(Parsed.rules[i].nested_rules[1]) :
                Parsed.rules[i].nested_rules[1][j].nested_rules
                    \notin {<<>>, << <<>> >>}

RECURSIVE WithoutSelectorSpans(_)
\* a selector with the positions in it left out
WithoutSelectorSpans(sel) ==
    [sel EXCEPT !.position = <<>>,
                !.descendant = IF @ = <<>> THEN <<>>
                               ELSE <<WithoutSelectorSpans(@[1])>>,
                !.child = IF @ = <<>> THEN <<>> ELSE <<WithoutSelectorSpans(@[1])>>]

RECURSIVE WithoutRuleSpans(_)
\* a rule with the positions in it left out
WithoutRuleSpans(rule) ==
    [rule EXCEPT !.position = <<>>,
                 !.selectors = [i \in 1..Len(@) |-> WithoutSelectorSpans(@[i])],
                 !.nested_rules =
                     IF @ = <<>> THEN <<>>
                     ELSE <<[i \in 1..Len(@[1]) |-> WithoutRuleSpans(@[1][i])]>>]

\* a style sheet with the positions in it left out
WithoutSpans(sheet) ==
    [rules |-> [i \in 1..Len(sheet.rules) |-> WithoutRuleSpans(sheet.rules[i])]]

\* C32: minification preserves meaning.  The minified rendering of a parsed
\* style sheet parses, and to the style sheet it was rendered from, spans
\* apart; a List value is read again as the List of the same values.
C32_MinifyPreservesMeaning ==
    (entry = "StyleSheet" /\ round = 2 /\ minify /\ Returned)
        => /\ outcome.res = "Ok"
           /\ WithoutSpans(outcome.val[1]) = WithoutSpans(style_sheet[1])

\* the branch of from_string for a string of at most 2048 bytes:
\* `lex_source(&string, 0, &mut reader)?; let this = Self::from_reader(..);
\* reader.expect_next(CSSToken::EOS)?; this`
EagerFromString(node, text) ==
    LET lexed == LexRun(LexerInit, text, 0)
        this == FromReader(node, lexed.tokens, 1)
    IN  IF lexed.result # "Ok"
        THEN [res |-> lexed.result, val |-> <<>>, p |-> 0, err |-> lexed.err]
        ELSE IF this.res = "Panic" THEN this
        ELSE ExpectEOSThenThis(this, lexed.tokens)

\* what the caller of from_string sees of a result: Ok with the node, Err with
\* the ParseError, or a panic
Seen(result) ==
    CASE result.res = "Ok" -> <<"Ok", result.val>>
      [] result.res = "Err" -> <<"Err", result.err>>
      [] OTHER -> <<result.res>>

\* C33: the two lexing configurations are equivalent.  In every interleaving
\* of the lexer thread and the parser, what the streaming branch of
\* from_string returns is what the in-memory branch returns for the same
\* text: the same node or the same ParseError.
C33_StreamedEqualsEager ==
    (entry \in Entries /\ pc = "returned")
        => Seen(outcome) = Seen(EagerFromString(entry, source))

(***************************************************************************)
(* ToStringer (lib.rs) with a source map attached: push, push_str and      *)
(* push_new_line, called in any order.                                     *)
(***************************************************************************)
MaxPushes == 3

\* a character outside the Basic Multilingual Plane
Astral == {"U+1F600"}

\* char::len_utf16
Utf16Len(chr) == IF chr \in Astral THEN 2 ELSE 1

\* the UTF-16 code units of a text
Utf16Length(text) ==
    Len(text) + Cardinality({i \in 1..Len(text) : Utf16Len(text[i]) = 2})

\* SourceMap::add_to_column(length), `self.column += length as u8`: what it
\* can leave; a sum that does not fit the u8 panics where overflow is
\* checked and wraps where it is not
add_to_column(sm, length) ==
    IF sm.column + (length % U8) < U8
    THEN {[panicked |-> FALSE, sm |-> [sm EXCEPT !.column = @ + (length % U8)]]}
    ELSE {[panicked |-> TRUE, sm |-> sm],
          [panicked |-> FALSE,
           sm |-> [sm EXCEPT !.column = (@ + (length % U8)) % U8]]}

PushedChars == {"a", "U+1F600"}

PushedSlices == {<<"a", "b">>, <<"U+1F600">>, [i \in 1..255 |-> "a"]}

\* to_string with settings.generate_source_map: an empty buffer and
\* Some(SourceMap::new())
InitStringer ==
    /\ entry = "ToStringer"
    /\ source = <<>>
    /\ start_offset = 0
    /\ vlq = VlqIdle
    /\ source_id = 0
    /\ recvOpen = TRUE
    /\ lexer = LexerInit
    /\ pc = "to_string"
    /\ parseResult = NoResult
    /\ outcome = NoResult
    /\ minify = FALSE
    /\ rendered = <<>>
    /\ round = 1
    /\ firstRender = <<>>
    /\ received = 0
    /\ style_sheet = <<>>
    /\ adjacency = <<>>
    /\ source_map = SourceMapNew
    /\ calls = <<>>
    /\ SOURCE_IDS = [thread \in Threads |-> {}]
    /\ SOURCE_ID_COUNTER = 0
    /\ parsed = <<>>

\* ToStringer::push(chr)
Push ==
    /\ pc = "to_string"
    /\ Len(calls) < MaxPushes
    /\ \E chr \in PushedChars :
          \E left \in add_to_column(source_map, Utf16Len(chr)) :
             /\ source_map' = left.sm
             /\ pc' = IF left.panicked THEN "panicked" ELSE pc
             /\ rendered' = IF left.panicked THEN rendered ELSE Append(rendered, chr)
             /\ calls' = Append(calls, [op |-> "push"])
    /\ UNCHANGED <<entry, source, start_offset, source_id, recvOpen, lexer,
                   parseResult, outcome, minify, round, firstRender,
                   vlq, received, style_sheet, adjacency,
                   SOURCE_IDS, SOURCE_ID_COUNTER, parsed>>

\* ToStringer::push_str(slice)
PushStr ==
    /\ pc = "to_string"
    /\ Len(calls) < MaxPushes
    /\ \E slice \in PushedSlices :
          \E left \in add_to_column(source_map, Len(slice)) :
             /\ source_map' = left.sm
             /\ pc' = IF left.panicked THEN "panicked" ELSE pc
             /\ rendered' = IF left.panicked THEN rendered ELSE rendered \o slice
             /\ calls' = Append(calls, [op |-> "push_str"])
    /\ UNCHANGED <<entry, source, start_offset, source_id, recvOpen, lexer,
                   parseResult, outcome, minify, round, firstRender,
                   vlq, received, style_sheet, adjacency,
                   SOURCE_IDS, SOURCE_ID_COUNTER, parsed>>

\* ToStringer::push_new_line()
PushNewLine ==
    /\ pc = "to_string"
    /\ Len(calls) < MaxPushes
    /\ source_map' = add_new_line(source_map)
    /\ rendered' = Append(rendered, "\n")
    /\ calls' = Append(calls, [op |-> "push_new_line"])
    /\ UNCHANGED <<entry, source, start_offset, source_id, recvOpen, lexer, pc,
                   parseResult, outcome, minify, round, firstRender,
                   vlq, received, style_sheet, adjacency,
                   SOURCE_IDS, SOURCE_ID_COUNTER, parsed>>

NextStringer == Push \/ PushStr \/ PushNewLine

SpecStringer == InitStringer /\ [][NextStringer]_vars

\* the text written since the last newline
LastLine(text) ==
    IF \A i \in 1..Len(text) : text[i] # "\n" THEN text
    ELSE SubSeq(text, 1 + (CHOOSE i \in 1..Len(text) :
                              /\ text[i] = "\n"
                              /\ \A j \in (i + 1)..Len(text) : text[j] # "\n"),
                Len(text))

\* C30: after any pushes that did not panic, the line of the source map is
\* the number of newlines written and its column is the number of UTF-16
\* code units written since the last newline.
C30_OutputPosition ==
    (entry = "ToStringer" /\ pc = "to_string")
        => /\ source_map.line
                 = Cardinality({i \in 1..Len(rendered) : rendered[i] = "\n"})
           /\ source_map.column = Utf16Length(LastLine(rendered))

(***************************************************************************)
(* The registry of sources (lib.rs): SOURCE_IDS is thread_local, the       *)
(* counter is one for the program.  Style sheets are parsed by from_path   *)
(* and by from_string on any thread and rendered with a source map on any  *)
(* thread.                                                                 *)
(***************************************************************************)
MaxParses == 2
MaxRenders == 2

\* the files from_path is given, display name and content
Files ==
    {[name |-> "f.css", text |-> <<"a", "{", "}">>],
     [name |-> "g.css", text |-> <<"b", "{", "b", ":", "c", ";", "}", "a", "{", "}">>]}

\* the strings from_string is given
Strings == {<<"c", "{", "}">>}

RECURSIVE LexSourceWithId(_, _, _)
\* lex_source(&source, source_id, &mut sender) from the state L to its return
LexSourceWithId(L, text, id) ==
    IF L.result # "running" THEN L
    ELSE IF L.pos < Len(text)
    THEN LexSourceWithId(LexStep(L, text, 0, id, TRUE), text, id)
    ELSE LexFinish(L, text, id, TRUE)

\* what from_path and from_string return for a text that lex_source lexes
\* with the source id: from_reader, then `expect_next(CSSToken::EOS)?`
StyleSheetOf(text, id) ==
    LET toks == LexSourceWithId(LexerInit, text, id).tokens
    IN  ExpectEOSThenThis(LibStyleSheetRules(toks, 1, <<>>), toks)

\* HashMap::get on one thread's SOURCE_IDS
RegistryGet(map, id) ==
    IF \E e \in map : e[1] = id
    THEN <<(CHOOSE e \in map : e[1] = id)[2]>>
    ELSE <<>>

\* HashMap::insert on one thread's SOURCE_IDS
RegistryInsert(map, id, value) ==
    {e \in map : e[1] # id} \cup {<<id, value>>}

RECURSIVE AfterPushes(_, _)
\* the SourceMap after the ToStringer has pushed a text: push_new_line for
\* every new line, add_to_column for the rest
AfterPushes(sm, text) ==
    IF text = <<>> THEN sm
    ELSE AfterPushes(IF Head(text) = "\n" THEN add_new_line(sm)
                     ELSE [sm EXCEPT !.column = (@ + 1) % U8],
                     Tail(text))

RECURSIVE LibDeclarationsToString(_)
\* the loop over the declarations of lib.rs's Rule::to_string_from_buffer,
\* settings not minified, depth 0
LibDeclarationsToString(declarations) ==
    IF declarations = <<>> THEN <<>>
    ELSE <<"\n">> \o IndentWith(FALSE)
         \o declarations[1][1] \o <<":", " ">> \o declarations[1][2] \o <<";">>
         \o (IF Len(declarations) = 1 THEN <<"\n">> ELSE <<>>)
         \o LibDeclarationsToString(Tail(declarations))

RECURSIVE RenderRules(_, _, _)
\* StyleSheet::to_string_from_buffer of lib.rs with a source map: every rule
\* starts with the add_mapping of its selector's position, whose source id
\* is looked up in the registry of the rendering thread when the SourceMap
\* has not met it; the text is one line per rule head, so that the original
\* line is 1 and the original column the one after the start of the span
RenderRules(rules, registry, done) ==
    IF rules = <<>> \/ done.panicked THEN done
    ELSE LET position == rules[1].selector.position[1]
             id == position.source_id
             known == SourcesMapGet(done.sm.sources_map, id) # <<>>
             found == RegistryGet(registry, id)
             text == SelectorToString(rules[1].selector, FALSE) \o <<" ", "{">>
                       \o LibDeclarationsToString(rules[1].declarations)
                       \o <<"}">>
                       \o (IF Len(rules) > 1 THEN <<"\n", "\n">> ELSE <<>>)
             log == Append(done.log,
                           [op |-> "add_mapping", source_id |-> id,
                            looked_up |-> ~known, found |-> found])
         IN  IF ~known /\ found = <<>>
             THEN [done EXCEPT !.panicked = TRUE, !.log = log]
             ELSE RenderRules(Tail(rules), registry,
                     [panicked |-> FALSE,
                      sm |-> AfterPushes(add_mapping(done.sm, 1, position.start + 1, id),
                                         text),
                      log |-> log])

InitRegistry ==
    /\ entry = "SOURCE_IDS"
    /\ source = <<>>
    /\ start_offset = 0
    /\ vlq = VlqIdle
    /\ source_id = 0
    /\ recvOpen = TRUE
    /\ lexer = LexerInit
    /\ pc = "registry"
    /\ parseResult = NoResult
    /\ outcome = NoResult
    /\ minify = FALSE
    /\ rendered = <<>>
    /\ round = 1
    /\ firstRender = <<>>
    /\ received = 0
    /\ style_sheet = <<>>
    /\ adjacency = <<>>
    /\ source_map = <<>>
    /\ calls = <<>>
    /\ SOURCE_IDS = [thread \in Threads |-> {}]
    /\ SOURCE_ID_COUNTER = 0
    /\ parsed = <<>>

\* StyleSheet::from_path(path, display_name) on a thread: the source id is
\* taken from the counter and registered in the SOURCE_IDS of that thread
FromPath ==
    /\ pc = "registry"
    /\ Len(parsed) < MaxParses
    /\ \E thread \in Threads, file \in Files :
          LET id == SOURCE_ID_COUNTER
              this == StyleSheetOf(file.text, id)
          IN  /\ SOURCE_ID_COUNTER' = (id + 1) % U8
              /\ SOURCE_IDS' = [SOURCE_IDS EXCEPT ![thread] =
                                   RegistryInsert(@, id, <<file.name, <<file.text>>>>)]
              /\ parsed' = IF this.res = "Ok"
                           THEN Append(parsed, [sheet |-> this.val[1],
                                                from |-> file.text])
                           ELSE parsed
    /\ UNCHANGED <<entry, source, start_offset, source_id, recvOpen, lexer, pc,
                   parseResult, outcome, minify, rendered, round, firstRender,
                   vlq, received, style_sheet, source_map, adjacency, calls>>

\* StyleSheet::from_string(string): `lex_source(&string, 0, ..)`, and nothing
\* is registered
FromString ==
    /\ pc = "registry"
    /\ Len(parsed) < MaxParses
    /\ \E string \in Strings :
          LET this == StyleSheetOf(string, 0)
          IN  parsed' = IF this.res = "Ok"
                        THEN Append(parsed, [sheet |-> this.val[1], from |-> string])
                        ELSE parsed
    /\ UNCHANGED <<entry, source, start_offset, source_id, recvOpen, lexer, pc,
                   parseResult, outcome, minify, rendered, round, firstRender,
                   vlq, received, style_sheet, source_map, adjacency, calls,
                   SOURCE_IDS, SOURCE_ID_COUNTER>>

\* to_string(&settings) with generate_source_map of a parsed style sheet, on
\* a thread; a lookup that finds nothing panics in `unwrap()`
ToStringWithSourceMap ==
    /\ pc = "registry"
    /\ Len(calls) < MaxRenders
    /\ \E thread \in Threads, k \in 1..Len(parsed) :
          LET done == RenderRules(parsed[k].sheet.rules, SOURCE_IDS[thread],
                                  [panicked |-> FALSE, sm |-> SourceMapNew,
                                   log |-> <<>>])
          IN  /\ source_map' = done.sm
              /\ pc' = IF done.panicked THEN "panicked" ELSE pc
              /\ calls' = Append(calls, [op |-> "to_string", thread |-> thread,
                                         from |-> parsed[k].from,
                                         add_mapping |-> done.log])
    /\ UNCHANGED <<entry, source, start_offset, source_id, recvOpen, lexer,
                   parseResult, outcome, minify, rendered, round, firstRender,
                   vlq, received, style_sheet, adjacency,
                   SOURCE_IDS, SOURCE_ID_COUNTER, parsed>>

NextRegistry == FromPath \/ FromString \/ ToStringWithSourceMap

SpecRegistry == InitRegistry /\ [][NextRegistry]_vars

\* C34: source ids always resolve.  Every add_mapping call made while a style
\* sheet returned by from_path or from_string is rendered gets a source id
\* that the SOURCE_IDS of the rendering thread has an entry for, and the entry
\* is the source the style sheet was parsed from; no lookup fails.
C34_SourceIdsResolve ==
    entry = "SOURCE_IDS"
        => /\ pc # "panicked"
           /\ \A i \in 1..Len(calls) :
                 \A j \in 1..Len(calls[i].add_mapping) :
                    /\ calls[i].add_mapping[j].found # <<>>
                    /\ calls[i].add_mapping[j].found[1][2] = <<calls[i].from>>

====
